---- MODULE Spec2Model ----
(***************************************************************************)
(* Sequential ratio estimation (RatioEstimator, snre_base.py) and the      *)
(* atom sampler shared with the APT loss (SNPE_C, snpe_c.py).              *)
(*                                                                         *)
(* The round driver RatioEstimator.__call__ and the training routine       *)
(* RatioEstimator._train are a state machine over `pc`.  Tensors are       *)
(* sequences of rows; a theta row carries where it was drawn from, an x    *)
(* row carries the theta it was simulated from and whether it is finite.   *)
(* A network is a record of its weights (the number of optimizer steps     *)
(* that changed them), whether it holds a non-zero gradient, and the       *)
(* object it was deep-copied from.                                         *)
(***************************************************************************)
EXTENDS Integers, Sequences, FiniteSets, TLC

(* ------------------------------ bounds -------------------------------- *)
MaxRounds == 2
MaxSims == 3
MaxTrainSims == 6
MaxScore == 1
MaxBatch == 3
MaxStop == 2
MaxCeiling == 2
MaxAtomBatch == 3

(* ------------------------- program constants -------------------------- *)
\* 2 ** 31 - 1, the epoch ceiling used when max_num_epochs is None.
IntMax == 2147483647
\* min_val handed to clamp_and_warn for num_atoms.
MinAtoms == 2

\* Python's None for an optional integer argument.
None == 0 - 1
\* float("-Inf") for validation scores; every real score is >= 0 here.
NegInf == 0 - 1

(* ------------------------------ helpers ------------------------------- *)
Min(a, b) == IF a <= b THEN a ELSE b
Max(a, b) == IF a >= b THEN a ELSE b

\* Variant: the rows of the entry appended last.
SumLensLastEntry(bank) == IF bank = <<>> THEN 0 ELSE Len(bank[Len(bank)])

RECURSIVE SumLens(_)
\* sum(len(theta) for theta in self._theta_bank)
SumLens(bank) ==
    IF bank = <<>> THEN 0 ELSE Len(Head(bank)) + SumLens(Tail(bank))

RECURSIVE Cat(_)
\* torch.cat of a list of per-round tensors along dimension 0.
Cat(bank) ==
    IF bank = <<>> THEN <<>> ELSE Head(bank) \o Cat(Tail(bank))

RECURSIVE MaskSelect(_, _)
\* tensor[mask] for a boolean mask of the same length.
MaskSelect(t, mask) ==
    IF t = <<>> THEN <<>>
    ELSE (IF Head(mask) THEN <<Head(t)>> ELSE <<>>)
         \o MaskSelect(Tail(t), Tail(mask))

\* All orders in which n simulator results can come back.
Orders(n) ==
    {p \in [1..n -> 1..n] : \A i, j \in 1..n : p[i] = p[j] => i = j}

XKinds == {"fin", "nan", "inf"}

\* clamp_and_warn(name, value, min_val, max_val): the clamped value.
ClampAndWarn(value, min_val, max_val) == Max(min_val, Min(value, max_val))

\* _ensure_list(num_simulations_per_round, num_rounds): an integer is
\* repeated for every round, a list is taken as it is.
EnsureList(n, rounds) ==
    IF n.kind = "int" THEN [r \in 1..rounds |-> n.val] ELSE n.val

(* ------------------------------- state -------------------------------- *)
VARIABLES
    pc,                 \* position of the round driver / training routine
    cfg,                \* constructor and __call__ arguments
    round_,             \* loop variable of the round loop
    max_num_epochs,     \* local of __call__ after the None default
    num_sims_per_round, \* local of __call__ after _ensure_list
    theta, x,           \* locals of __call__: current round's tensors
    is_valid_x, num_nans, num_infs,
    theta_bank, x_bank, \* self._theta_bank, self._x_bank
    warnings,           \* warnings logged so far
    nets,               \* heap of network objects
    posterior,          \* self._posterior (index into nets)
    untrained_classifier, \* self._untrained_classifier (index or None)
    optimizer,          \* network whose parameters the optimizer holds
    num_examples, num_training_examples, num_validation_examples,
    clipped_batch_size,
    permuted_indices, train_indices, val_indices, \* locals of _train
    epoch,
    val_log_prob, best_val_log_prob, epochs_since_last_improvement,
    best_model_state_dict,
    summary,            \* self._summary
    num_trained_rounds, \* self._posterior._num_trained_rounds
    val_hist,           \* history: validation scores of the current round
    loss_calls,         \* history: <<rows, atoms>> of batches given to _loss
    n_valid,            \* history: rows that passed the filter, per round
    fitted,             \* history: posterior at the end of each round
    sampled_from,       \* history: what each round's theta was drawn from
    loss_pc,            \* position of one loss evaluation
    family,             \* which estimator evaluates the loss
    theta_batch, x_batch, \* the minibatch handed to the loss
    num_atoms,          \* requested atoms (argument, or self._num_atoms)
    atoms_used,         \* the atom count the atom set is built with
    choices,            \* result of torch.multinomial
    atomic_theta, repeated_x,
    use_combined_loss,  \* self._use_combined_loss
    masks,              \* the masks argument of the APT loss, 1 for a prior sample
    log_probs,          \* the tensors the APT loss evaluated on the way
    loss_result,        \* what the APT loss returned or raised
    TRANSFORMS,         \* _TRANSFORMS: transform name -> class
    TRANSFORMS_INITS,   \* _TRANSFORMS_INITS: transform name -> initializer
    FLOW_BUILDERS,      \* _FLOW_BUILDERS: flow name -> builder function
    flow_call,          \* the registry / flow operation called last
    flow_result,        \* what that call returned or raised
    constructed,        \* objects that call constructed, in order
    provider,           \* attributes of the PotentialFunctionProvider object
    potentials,         \* potential functions returned so far
    evaluation          \* the potential evaluated last, its value, and
                        \* the number of requests made before it

driverVars ==
    <<pc, cfg, round_, max_num_epochs, num_sims_per_round, theta, x,
      is_valid_x, num_nans, num_infs, theta_bank, x_bank, warnings, nets,
      posterior, untrained_classifier, optimizer, num_examples,
      num_training_examples, num_validation_examples, clipped_batch_size,
      permuted_indices, train_indices, val_indices,
      epoch, val_log_prob, best_val_log_prob, epochs_since_last_improvement,
      best_model_state_dict, summary, num_trained_rounds, val_hist,
      loss_calls, n_valid, fitted, sampled_from>>

atomVars ==
    <<loss_pc, family, theta_batch, x_batch, num_atoms, atoms_used, choices,
      atomic_theta, repeated_x, use_combined_loss, masks, log_probs,
      loss_result>>

flowVars ==
    <<TRANSFORMS, TRANSFORMS_INITS, FLOW_BUILDERS, flow_call, flow_result,
      constructed>>

potentialVars == <<provider, potentials, evaluation>>

\* What the round driver and _train leave alone.
outsideDriver == <<atomVars, flowVars, potentialVars>>
\* What a loss evaluation leaves alone.
outsideLoss == <<driverVars, flowVars, potentialVars>>

roundLocals == <<theta, x, is_valid_x, num_nans, num_infs>>
bankVars == <<theta_bank, x_bank>>
netVars == <<nets, posterior, untrained_classifier, optimizer>>
splitVars ==
    <<num_examples, num_training_examples, num_validation_examples,
      clipped_batch_size, permuted_indices, train_indices, val_indices>>
stopVars ==
    <<epoch, val_log_prob, best_val_log_prob, epochs_since_last_improvement,
      best_model_state_dict>>
histVars == <<val_hist, loss_calls, n_valid, fitted, sampled_from>>

(* -------------------------- construction ------------------------------ *)
\* A freshly built classifier: untrained weights, no gradient, no origin.
NewNet == [w |-> 0, grad |-> FALSE, copyOf |-> 0]

\* copy.deepcopy of network object `id`: same weights, no gradient.
DeepCopy(heap, id) == [w |-> heap[id].w, grad |-> FALSE, copyOf |-> id]

\* RatioEstimator.__init__ followed by the binding of __call__'s arguments.
Constructed(c) ==
    /\ pc = "call"
    /\ cfg = c
    /\ round_ = 0
    /\ max_num_epochs = None
    /\ num_sims_per_round = <<>>
    /\ theta = <<>> /\ x = <<>>
    /\ is_valid_x = <<>> /\ num_nans = 0 /\ num_infs = 0
    /\ theta_bank = <<>> /\ x_bank = <<>>
    /\ warnings = {}
    /\ nets = IF c.retrain_from_scratch_each_round
              THEN <<NewNet, DeepCopy(<<NewNet>>, 1)>>
              ELSE <<NewNet>>
    /\ posterior = 1
    /\ untrained_classifier =
          IF c.retrain_from_scratch_each_round THEN 2 ELSE None
    /\ optimizer = None
    /\ num_examples = 0 /\ num_training_examples = 0
    /\ num_validation_examples = 0 /\ clipped_batch_size = 0
    /\ permuted_indices = <<>> /\ train_indices = <<>> /\ val_indices = <<>>
    /\ epoch = 0
    /\ val_log_prob = NegInf /\ best_val_log_prob = NegInf
    /\ epochs_since_last_improvement = 0
    /\ best_model_state_dict = 0
    /\ summary = [epochs |-> <<>>, best_validation_log_probs |-> <<>>]
    /\ num_trained_rounds = 0
    /\ val_hist = <<>> /\ loss_calls = {} /\ n_valid = <<>>
    /\ fitted = <<>> /\ sampled_from = <<>>

\* No loss evaluation under way.
NoLoss ==
    /\ loss_pc = "idle"
    /\ family = "none"
    /\ theta_batch = <<>> /\ x_batch = <<>>
    /\ num_atoms = 0 /\ atoms_used = 0
    /\ choices = <<>> /\ atomic_theta = <<>> /\ repeated_x = <<>>
    /\ use_combined_loss = FALSE /\ masks = <<>>
    /\ log_probs = <<>> /\ loss_result = [status |-> "none"]

\* vi_pyro_flows is not imported: no registry, no flow operation.
NoFlows ==
    /\ TRANSFORMS = <<>> /\ TRANSFORMS_INITS = <<>> /\ FLOW_BUILDERS = <<>>
    /\ flow_call = [op |-> "none"]
    /\ flow_result = [status |-> "none"]
    /\ constructed = <<>>

\* No PotentialFunctionProvider has been asked for a potential.
NoPotential ==
    /\ provider = [set |-> FALSE]
    /\ potentials = <<>>
    /\ evaluation = [of |-> 0]

(* --------------------------- round driver ----------------------------- *)
\* __call__ up to the round loop: the None default and _ensure_list (x_o is
\* taken to be given whenever there is more than one round).
Call ==
    /\ pc = "call"
    /\ max_num_epochs' =
          IF cfg.max_num_epochs = None THEN IntMax ELSE cfg.max_num_epochs
    /\ num_sims_per_round' =
          EnsureList(cfg.num_simulations_per_round, cfg.num_rounds)
    /\ round_' = 0
    /\ pc' = IF cfg.num_rounds = 0 THEN "return" ELSE "sample"
    /\ UNCHANGED <<outsideDriver, cfg, roundLocals, bankVars, warnings, netVars, splitVars,
                   stopVars, summary, num_trained_rounds, histVars>>

\* Variant: every round draws from the prior.
ProposalPrior(r) == [src |-> "prior", net |-> 0, w |-> 0]

\* What theta is drawn from in round r: the prior, or the current posterior.
Proposal(r) ==
    IF r = 0 THEN [src |-> "prior", net |-> 0, w |-> 0]
    ELSE [src |-> "posterior", net |-> posterior, w |-> nets[posterior].w]

\* SAMPLE: self._prior.sample((num_sims,)) or self._posterior.sample(num_sims).
Sample ==
    /\ pc = "sample"
    /\ LET num_sims == num_sims_per_round[round_ + 1]
           from == Proposal(round_)
       IN /\ theta' = [k \in 1..num_sims |->
                          [from |-> from, round |-> round_, k |-> k]]
          /\ sampled_from' = Append(sampled_from, from)
    /\ pc' = "simulate"
    /\ UNCHANGED <<outsideDriver, cfg, round_, max_num_epochs, num_sims_per_round, x,
                   is_valid_x, num_nans, num_infs, bankVars, warnings,
                   netVars, splitVars, stopVars, summary, num_trained_rounds,
                   val_hist, loss_calls, n_valid, fitted>>

\* self._batched_simulator(theta): results come back in any order when
\* several workers simulate, each x next to the theta it was simulated from.
BatchedSimulator(th) ==
    LET n == Len(th)
        orders == IF cfg.num_workers = 1
                  THEN {[i \in 1..n |-> i]} ELSE Orders(n)
        kinds == IF cfg.simulator = "finite"
                 THEN {[i \in 1..n |-> "fin"]} ELSE [1..n -> XKinds]
    IN {[theta |-> [i \in 1..n |-> th[p[i]]],
         x |-> [i \in 1..n |-> [of |-> th[p[i]], kind |-> kd[i]]]]
        : p \in orders, kd \in kinds}

\* theta, x = self._batched_simulator(theta)
Simulate ==
    /\ pc = "simulate"
    /\ \E res \in BatchedSimulator(theta) :
          /\ theta' = res.theta
          /\ x' = res.x
    /\ pc' = "filter"
    /\ UNCHANGED <<outsideDriver, cfg, round_, max_num_epochs, num_sims_per_round,
                   is_valid_x, num_nans, num_infs, bankVars, warnings,
                   netVars, splitVars, stopVars, summary, num_trained_rounds,
                   histVars>>

RECURSIVE CountKind(_, _)
CountKind(xs, kind) ==
    IF xs = <<>> THEN 0
    ELSE (IF Head(xs).kind = kind THEN 1 ELSE 0) + CountKind(Tail(xs), kind)

\* handle_invalid_x(x, exclude_invalid_x): mask and the two counts.
HandleInvalidX(xs, exclude) ==
    [is_valid_x |-> [i \in 1..Len(xs) |->
                        IF exclude THEN xs[i].kind = "fin" ELSE TRUE],
     num_nans |-> CountKind(xs, "nan"),
     num_infs |-> CountKind(xs, "inf")]

\* warn_on_invalid_x(num_nans, num_infs, exclude_invalid_x): the log after it.
WarnOnInvalidX(log, nans, infs, exclude) ==
    IF nans + infs > 0
    THEN log \cup {[what |-> "invalid_x", round |-> round_,
                    excluded |-> exclude]}
    ELSE log

\* FILTER: handle_invalid_x and warn_on_invalid_x.
Filter ==
    /\ pc = "filter"
    /\ LET h == HandleInvalidX(x, cfg.exclude_invalid_x)
       IN /\ is_valid_x' = h.is_valid_x
          /\ num_nans' = h.num_nans
          /\ num_infs' = h.num_infs
          /\ warnings' = WarnOnInvalidX(warnings, h.num_nans, h.num_infs,
                                        cfg.exclude_invalid_x)
          /\ n_valid' = Append(n_valid,
                               Len(MaskSelect(h.is_valid_x, h.is_valid_x)))
    /\ pc' = "accumulate"
    /\ UNCHANGED <<outsideDriver, cfg, round_, max_num_epochs, num_sims_per_round, theta, x,
                   bankVars, netVars, splitVars, stopVars, summary,
                   num_trained_rounds, val_hist, loss_calls, fitted,
                   sampled_from>>

\* Variant: theta is appended without the validity mask.
StoredThetaUnmasked == theta

\* Variant: the mask is applied to theta in the order it was requested in.
StoredThetaRequested ==
    MaskSelect([i \in 1..Len(theta) |->
                   CHOOSE t \in {theta[j] : j \in 1..Len(theta)} : t.k = i],
               is_valid_x)

\* The rows of theta appended to the bank.
StoredTheta == MaskSelect(theta, is_valid_x)

\* Variant: x is appended without the validity mask.
StoredXUnfiltered == x

\* The rows of x appended to the bank.
StoredX == MaskSelect(x, is_valid_x)

\* Variant: the bank is replaced by the round's rows.
AccumulateReplacing ==
    /\ pc = "accumulate"
    /\ theta_bank' = <<StoredTheta>>
    /\ x_bank' = <<StoredX>>
    /\ pc' = "train"
    /\ UNCHANGED <<outsideDriver, cfg, round_, max_num_epochs, num_sims_per_round,
                   roundLocals, warnings, netVars, splitVars, stopVars,
                   summary, num_trained_rounds, histVars>>

\* ACCUMULATE: the two appends to the bank.
Accumulate ==
    /\ pc = "accumulate"
    /\ theta_bank' = Append(theta_bank, StoredTheta)
    /\ x_bank' = Append(x_bank, StoredX)
    /\ pc' = "train"
    /\ UNCHANGED <<outsideDriver, cfg, round_, max_num_epochs, num_sims_per_round,
                   roundLocals, warnings, netVars, splitVars, stopVars,
                   summary, num_trained_rounds, histVars>>

(* ------------------------------ training ------------------------------ *)
\* 1 - validation_fraction in double precision, the fraction written
\* num/den, or num/den * 2^-exp when it is minute: a fraction of 2^-54 or less
\* is absorbed and the difference is 1.0; the difference is exact for the
\* binary fractions used here.
OneMinus(f) ==
    IF "exp" \in DOMAIN f /\ f.exp >= 53 /\ 2 * f.num <= f.den
    THEN [num |-> 1, den |-> 1]
    ELSE [num |-> f.den - f.num, den |-> f.den]

\* int((1 - validation_fraction) * num_examples): the product is exact for
\* the binary fractions used here.
NumTraining(f, n) == (OneMinus(f).num * n) \div OneMinus(f).den

\* The atom count the epoch loop hands to _loss: clamp_and_warn's result is
\* not assigned, so it is the num_atoms that was passed in.
TrainNumAtoms == cfg.num_atoms

\* clamp_and_warn logs a warning when the clamped value differs.
ClampWarning(log, value, min_val, max_val) ==
    IF ClampAndWarn(value, min_val, max_val) # value
    THEN log \cup {[what |-> "num_atoms", round |-> round_,
                    excluded |-> FALSE]}
    ELSE log

\* torch.randperm(n): every order of 0..n-1.
RandPerm(n) == {[i \in 1..n |-> p[i] - 1] : p \in Orders(n)}

\* permuted_indices[:num_training_examples]
TrainIndices(perm, ntr) == SubSeq(perm, 1, ntr)

\* Variant: the validation slice starts one position early.
ValIndicesFromLastTraining(perm, ntr) == SubSeq(perm, Max(1, ntr), Len(perm))

\* permuted_indices[num_training_examples:]
ValIndices(perm, ntr) == SubSeq(perm, ntr + 1, Len(perm))

\* The head of _train with the index sets of the split: the permutation, the
\* two sizes, the two slices and the clipped batch size.
TrainSplit ==
    /\ pc = "train"
    /\ LET n == SumLens(theta_bank)
           ntr == NumTraining(cfg.validation_fraction, n)
       IN /\ num_examples' = n
          /\ num_training_examples' = ntr
          /\ num_validation_examples' = n - ntr
          /\ clipped_batch_size' = Min(cfg.batch_size, n - ntr)
          /\ \E perm \in RandPerm(n) :
                /\ permuted_indices' = perm
                /\ train_indices' = TrainIndices(perm, ntr)
                /\ val_indices' = ValIndices(perm, ntr)
    /\ pc' = "split"
    /\ UNCHANGED <<outsideDriver, cfg, round_, max_num_epochs, num_sims_per_round,
                   roundLocals, bankVars, warnings, netVars, stopVars, summary,
                   num_trained_rounds, histVars>>

\* _train up to the epoch loop: split sizes, clipped batch size, loaders,
\* optimizer, the retrain-from-scratch reset, epoch and score reset.  The
\* loaders are followed by the sizes of their batches; which index falls on
\* which side of the split is followed by TrainSplit.
TrainSetup ==
    /\ pc = "train"
    /\ LET n == SumLens(theta_bank)
           ntr == NumTraining(cfg.validation_fraction, n)
           nval == n - ntr
           cbs == Min(cfg.batch_size, nval)
       IN /\ num_examples' = n
          /\ num_training_examples' = ntr
          /\ num_validation_examples' = nval
          /\ clipped_batch_size' = cbs
          /\ UNCHANGED <<permuted_indices, train_indices, val_indices>>
          /\ warnings' = ClampWarning(warnings, cfg.num_atoms, MinAtoms, cbs)
          /\ loss_calls' = {}
          /\ IF cbs <= 0
             THEN \* DataLoader rejects a batch size that is not positive.
                  /\ pc' = "error"
                  /\ UNCHANGED <<netVars, stopVars, val_hist>>
             ELSE /\ optimizer' = posterior
                  /\ IF cfg.retrain_from_scratch_each_round
                     THEN /\ nets' = Append(nets, DeepCopy(nets, posterior))
                          /\ posterior' = Len(nets) + 1
                     ELSE UNCHANGED <<nets, posterior>>
                  /\ epoch' = 0
                  /\ val_log_prob' = NegInf
                  /\ val_hist' = <<>>
                  /\ pc' = "loop"
                  /\ UNCHANGED <<untrained_classifier, best_val_log_prob,
                                 epochs_since_last_improvement,
                                 best_model_state_dict>>
    /\ UNCHANGED <<outsideDriver, cfg, round_, max_num_epochs, num_sims_per_round,
                   roundLocals, bankVars, summary, num_trained_rounds,
                   n_valid, fitted, sampled_from>>

\* Variant: the patience window is taken one epoch short.
ConvergedEarly(ep, stop_after_epochs) ==
    LET improved == ep = 0 \/ val_log_prob > best_val_log_prob
        best == IF improved THEN val_log_prob ELSE best_val_log_prob
        since == IF improved THEN 0 ELSE epochs_since_last_improvement + 1
        state == IF improved THEN nets[posterior].w
                 ELSE best_model_state_dict
    IN [best |-> best, since |-> since, state |-> state,
        converged |-> since > stop_after_epochs - 2]

\* self._converged(epoch, stop_after_epochs): the early-stopping state after
\* the call and its result.
Converged(ep, stop_after_epochs) ==
    LET improved == ep = 0 \/ val_log_prob > best_val_log_prob
        best == IF improved THEN val_log_prob ELSE best_val_log_prob
        since == IF improved THEN 0 ELSE epochs_since_last_improvement + 1
        state == IF improved THEN nets[posterior].w
                 ELSE best_model_state_dict
    IN [best |-> best, since |-> since, state |-> state,
        converged |-> since > stop_after_epochs - 1]

\* First conjunct of the while condition.
BelowCeiling == epoch <= max_num_epochs

\* The while condition: the ceiling test, then (only if it passes)
\* self._converged, which restores the best weights when it reports TRUE.
EpochCheck ==
    /\ pc = "loop"
    /\ IF BelowCeiling
       THEN LET c == Converged(epoch, cfg.stop_after_epochs)
            IN /\ best_val_log_prob' = c.best
               /\ epochs_since_last_improvement' = c.since
               /\ best_model_state_dict' = c.state
               /\ nets' = IF c.converged
                          THEN [nets EXCEPT ![posterior].w = c.state]
                          ELSE nets
               /\ pc' = IF c.converged THEN "train_end" ELSE "epoch"
       ELSE /\ pc' = "train_end"
            /\ UNCHANGED <<best_val_log_prob, epochs_since_last_improvement,
                           best_model_state_dict, nets>>
    /\ UNCHANGED <<outsideDriver, cfg, round_, max_num_epochs, num_sims_per_round,
                   roundLocals, bankVars, warnings, posterior,
                   untrained_classifier, optimizer, splitVars, epoch,
                   val_log_prob, summary, num_trained_rounds, histVars>>

(* ---------------------------- atom sampler ---------------------------- *)
\* Result of a division by zero in floating point (0/0 or 1/0).
NotFinite == 0 - 1

\* eye(batch_size)
Eye(i, j) == IF i = j THEN 1 ELSE 0

\* Variant: the diagonal is not zeroed.
ProbsNoMask(B) ==
    [i \in 0..(B - 1) |-> [j \in 0..(B - 1) |->
        IF B - 1 = 0 THEN NotFinite ELSE 1]]

\* ones(B, B) * (1 - eye(B)) / (B - 1); every positive entry is the same
\* weight 1/(B - 1) and is written 1.
Probs(B) ==
    [i \in 0..(B - 1) |-> [j \in 0..(B - 1) |->
        IF B - 1 = 0 THEN NotFinite ELSE 1 * (1 - Eye(i, j))]]

\* Categories of row i that can be drawn, and those of weight zero.
Positive(probs, i) == {j \in DOMAIN probs[i] : probs[i][j] > 0}
ZeroWeight(probs, i) == {j \in DOMAIN probs[i] : probs[i][j] = 0}

\* torch.multinomial(probs, num_samples, replacement=False) is certain to
\* raise: no sample asked for, more samples than categories, or an entry
\* that is not a finite non-negative number.
MultinomialMustRaise(probs, num_samples) ==
    \/ num_samples <= 0
    \/ \E i \in DOMAIN probs :
          \/ num_samples > Cardinality(DOMAIN probs[i])
          \/ \E j \in DOMAIN probs[i] : probs[i][j] < 0

\* More samples asked for than a row has categories of positive weight:
\* depending on the torch build the call raises, or fills the row up with
\* categories of weight zero.
MultinomialShort(probs, num_samples) ==
    \E i \in DOMAIN probs : num_samples > Cardinality(Positive(probs, i))

\* The call can raise.
MultinomialCanRaise(probs, num_samples) ==
    MultinomialMustRaise(probs, num_samples)
        \/ MultinomialShort(probs, num_samples)

\* The call can return.
MultinomialCanReturn(probs, num_samples) ==
    ~MultinomialMustRaise(probs, num_samples)

\* self._loss on a batch of B rows with K atoms draws K - 1 partners per row.
LossCanRaise(B, K) == MultinomialCanRaise(Probs(B), K - 1)
LossCanReturn(B, K) == MultinomialCanReturn(Probs(B), K - 1)

\* Draws for row i: distinct categories, those of positive weight first.
Draws(probs, i, num_samples) ==
    {s \in [0..(num_samples - 1) -> DOMAIN probs[i]] :
        /\ \A a, b \in DOMAIN s : s[a] = s[b] => a = b
        /\ \A a \in DOMAIN s :
              IF a < Cardinality(Positive(probs, i))
              THEN s[a] \in Positive(probs, i)
              ELSE s[a] \in ZeroWeight(probs, i)}

RECURSIVE DrawnRows(_, _, _)
\* The draws of rows 0 .. rows - 1, one sequence per row.
DrawnRows(probs, num_samples, rows) ==
    IF rows = 0 THEN {<<>>}
    ELSE {m @@ ((rows - 1) :> s) :
             m \in DrawnRows(probs, num_samples, rows - 1),
             s \in Draws(probs, rows - 1, num_samples)}

\* Every index tensor torch.multinomial can return.
Multinomial(probs, num_samples) ==
    DrawnRows(probs, num_samples, Cardinality(DOMAIN probs))

\* repeat_rows(x, num_reps): every row num_reps times, contiguously.
RepeatRows(t, num_reps) ==
    [n \in 0..(Cardinality(DOMAIN t) * num_reps - 1) |-> t[n \div num_reps]]

\* Variant: the partners come first in a block, the row itself last.
AtomicThetaSelfLast(t, ch, K) ==
    LET B == Cardinality(DOMAIN t)
        stacked == [i \in 0..(B - 1) |-> [a \in 0..(K - 1) |->
                      IF a = K - 1 THEN t[i] ELSE t[ch[i][a]]]]
    IN [n \in 0..(B * K - 1) |-> stacked[n \div K][n % K]]

\* torch.cat((theta[:, None, :], theta[choices]), dim=1)
\*     .reshape(batch_size * num_atoms, -1)
AtomicTheta(t, ch, K) ==
    LET B == Cardinality(DOMAIN t)
        stacked == [i \in 0..(B - 1) |-> [a \in 0..(K - 1) |->
                      IF a = 0 THEN t[i] ELSE t[ch[i][a - 1]]]]
    IN [n \in 0..(B * K - 1) |-> stacked[n \div K][n % K]]

\* The atom set for a batch and an atom count K: the shared body of
\* _classifier_logits and _log_prob_proposal_posterior.
BuildAtoms(K) ==
    LET batch_size == Cardinality(DOMAIN theta_batch)
        probs == Probs(batch_size)
    IN /\ atoms_used' = K
       /\ \/ /\ MultinomialCanRaise(probs, K - 1)
             /\ loss_pc' = "raised"
             /\ UNCHANGED <<choices, atomic_theta, repeated_x>>
          \/ /\ MultinomialCanReturn(probs, K - 1)
             /\ \E ch \in Multinomial(probs, K - 1) :
                   /\ choices' = ch
                   /\ atomic_theta' = AtomicTheta(theta_batch, ch, K)
             /\ repeated_x' = RepeatRows(x_batch, K)
             /\ loss_pc' = "done"

\* The atom count _classifier_logits uses: its num_atoms argument.
LogitsNumAtoms == num_atoms

\* RatioEstimator._classifier_logits(theta, x, num_atoms)
ClassifierLogits ==
    /\ loss_pc = "input"
    /\ family = "snre"
    /\ BuildAtoms(LogitsNumAtoms)
    /\ UNCHANGED <<outsideLoss, family, theta_batch, x_batch, num_atoms,
                   use_combined_loss, masks, log_probs, loss_result>>

\* Variant: the clamped value is not assigned.
ProposalNumAtomsUnclamped == num_atoms

\* The atom count of the APT loss: self._num_atoms clamped to the batch.
ProposalNumAtoms ==
    ClampAndWarn(num_atoms, MinAtoms, Cardinality(DOMAIN theta_batch))

(* ---------------------- proposal-posterior value ---------------------- *)
RECURSIVE Gcd(_, _)
Gcd(a, b) == IF b = 0 THEN a ELSE Gcd(b, a % b)

\* A finite log-density: the logarithm of num / den, in lowest terms.
Log(num, den) ==
    [kind |-> "fin", num |-> num \div Gcd(num, den),
     den |-> den \div Gcd(num, den)]

\* A value that is not finite: "ninf", "pinf" or "nan".
NonFinite(kind) == [kind |-> kind, num |-> 0, den |-> 1]

\* Floating-point negation, sum and difference of log-densities.
Neg(a) ==
    CASE a.kind = "fin" -> Log(a.den, a.num)
      [] a.kind = "ninf" -> NonFinite("pinf")
      [] a.kind = "pinf" -> NonFinite("ninf")
      [] OTHER -> a

Add(a, b) ==
    IF a.kind = "fin" /\ b.kind = "fin"
    THEN Log(a.num * b.num, a.den * b.den)
    ELSE IF a.kind = "nan" \/ b.kind = "nan" THEN NonFinite("nan")
    ELSE IF a.kind = "fin" THEN b
    ELSE IF b.kind = "fin" \/ a.kind = b.kind THEN a
    ELSE NonFinite("nan")

Sub(a, b) == Add(a, Neg(b))

\* masks * value for a mask entry of 0 or 1: 0 * inf and 0 * nan are nan.
Times(mask, a) ==
    IF mask = 1 THEN a
    ELSE IF a.kind = "fin" THEN Log(1, 1) ELSE NonFinite("nan")

RECURSIVE SumExp(_, _)
\* The sum of exp(row[a]) for a < upto, as a fraction; row is finite.
SumExp(row, upto) ==
    IF upto = 0 THEN [num |-> 0, den |-> 1]
    ELSE LET rest == SumExp(row, upto - 1)
             last == row[upto - 1]
         IN [num |-> rest.num * last.den + last.num * rest.den,
             den |-> rest.den * last.den]

\* torch.logsumexp(row, dim=-1)
LogSumExp(row) ==
    IF \E a \in DOMAIN row : row[a].kind \in {"nan", "pinf"}
    THEN NonFinite(IF \E a \in DOMAIN row : row[a].kind = "nan"
                   THEN "nan" ELSE "pinf")
    ELSE IF \E a \in DOMAIN row : row[a].kind = "ninf" THEN NonFinite("ninf")
    ELSE LET s == SumExp(row, Cardinality(DOMAIN row)) IN Log(s.num, s.den)

\* self._posterior.net.log_prob(theta, x), row by row: the density of the
\* network in use.
NetLogProb(th, xo) == Log(1 + ((th.theta + 2 * xo.x) % 3), 1)

\* self._prior.log_prob(theta), row by row.
PriorLogProb(th) == Log(1 + (th.theta % 2), 1)

\* self._assert_all_finite(quantity, description) passes.
AllFinite(quantity) == \A n \in DOMAIN quantity : quantity[n].kind = "fin"

\* What an evaluation of the network or of the prior can return besides the
\* finite values above: one entry of one tensor that is not finite, in the
\* first or the last row.
Faults(B, K, combined) ==
    {[tensor |-> "none", row |-> 0, kind |-> "fin"]}
    \cup {[tensor |-> t, row |-> r, kind |-> "ninf"] :
             t \in {"posterior", "prior"}, r \in {0, B * K - 1}}
    \cup (IF combined
          THEN {[tensor |-> "non_atomic", row |-> r, kind |-> k] :
                   r \in {0, B - 1}, k \in {"ninf", "nan"}}
          ELSE {})

\* The tensor an evaluation returns under a fault.
Evaluated(tensor, name, fault) ==
    [n \in DOMAIN tensor |->
        IF fault.tensor = name /\ fault.row = n THEN NonFinite(fault.kind)
        ELSE tensor[n]]

LossRaised(description, tensors) ==
    [status |-> "raise", error |-> description, value |-> <<>>] @@ tensors
LossReturned(value, tensors) ==
    [status |-> "return", error |-> "", value |-> value] @@ tensors

\* Lines 146-173 of _log_prob_proposal_posterior on an atom set of B blocks
\* of K rows.
ProposalPosteriorValue(th, xo, atoms, rep_x, K, msk, combined, fault) ==
    LET B == Cardinality(DOMAIN th)
        none == [posterior |-> <<>>, prior |-> <<>>, proposal |-> <<>>,
                 non_atomic |-> <<>>]
        log_prob_posterior ==
            Evaluated([n \in DOMAIN atoms |-> NetLogProb(atoms[n], rep_x[n])],
                      "posterior", fault)
        log_prob_prior ==
            Evaluated([n \in DOMAIN atoms |-> PriorLogProb(atoms[n])],
                      "prior", fault)
        unnormalized_log_prob ==
            [i \in 0..(B - 1) |-> [a \in 0..(K - 1) |->
                Sub(log_prob_posterior[i * K + a], log_prob_prior[i * K + a])]]
        log_prob_proposal_posterior ==
            [i \in 0..(B - 1) |->
                Sub(unnormalized_log_prob[i][0],
                    LogSumExp(unnormalized_log_prob[i]))]
        log_prob_posterior_non_atomic ==
            Evaluated([i \in 0..(B - 1) |-> NetLogProb(th[i], xo[i])],
                      "non_atomic", fault)
        atomic == [none EXCEPT !.posterior = log_prob_posterior,
                               !.prior = log_prob_prior,
                               !.proposal = log_prob_proposal_posterior]
    IN IF ~AllFinite(log_prob_posterior)
       THEN LossRaised("posterior eval",
                       [none EXCEPT !.posterior = log_prob_posterior])
       ELSE IF ~AllFinite(log_prob_prior)
       THEN LossRaised("prior eval",
                       [none EXCEPT !.posterior = log_prob_posterior,
                                    !.prior = log_prob_prior])
       ELSE IF ~AllFinite(log_prob_proposal_posterior)
       THEN LossRaised("proposal posterior eval", atomic)
       ELSE IF combined
       THEN LossReturned(
               [i \in 0..(B - 1) |->
                   Add(Times(msk[i], log_prob_posterior_non_atomic[i]),
                       log_prob_proposal_posterior[i])],
               [atomic EXCEPT !.non_atomic = log_prob_posterior_non_atomic])
       ELSE LossReturned(log_prob_proposal_posterior, atomic)

\* SNPE_C._log_prob_proposal_posterior(theta, x, masks): the atom set, then
\* the value.
LogProbProposalPosterior ==
    /\ loss_pc = "input"
    /\ family = "snpe_c"
    /\ BuildAtoms(ProposalNumAtoms)
    /\ IF loss_pc' = "raised"
       THEN /\ loss_result' = [status |-> "raise", error |-> "multinomial",
                               value |-> <<>>]
            /\ log_probs' = log_probs
       ELSE \E fault \in Faults(Cardinality(DOMAIN theta_batch), atoms_used',
                                use_combined_loss) :
               LET v == ProposalPosteriorValue(theta_batch, x_batch,
                                               atomic_theta', repeated_x',
                                               atoms_used', masks,
                                               use_combined_loss, fault)
               IN /\ loss_result' = [status |-> v.status, error |-> v.error,
                                     value |-> v.value]
                  /\ log_probs' = [posterior |-> v.posterior,
                                   prior |-> v.prior,
                                   proposal |-> v.proposal,
                                   non_atomic |-> v.non_atomic]
    /\ UNCHANGED <<outsideLoss, family, theta_batch, x_batch, num_atoms,
                   use_combined_loss, masks>>

(* ---------------------------- epoch loop ------------------------------ *)
Scores == 0..MaxScore

\* Batches of train_loader: drop_last=True.
TrainBatches(ntr, cbs) == [i \in 1..(ntr \div cbs) |-> cbs]

\* Batches of val_loader: drop_last=False.
ValBatches(nval, cbs) ==
    [i \in 1..(nval \div cbs) |-> cbs]
        \o (IF nval % cbs > 0 THEN <<nval % cbs>> ELSE <<>>)

\* optimizer.zero_grad()
ZeroGrad(heap) == [heap EXCEPT ![optimizer].grad = FALSE]

\* loss.backward() and clip_grad_norm_ act on self._posterior.net.
Backward(heap) == [heap EXCEPT ![posterior].grad = TRUE]

\* optimizer.step(): parameters without a gradient stay as they are.
Step(heap) ==
    IF heap[optimizer].grad
    THEN [heap EXCEPT ![optimizer].w = heap[optimizer].w + 1]
    ELSE heap

RECURSIVE TrainOn(_, _)
\* The body of the loop over train_loader, for `batches` batches.
TrainOn(heap, batches) ==
    IF batches = 0 THEN heap
    ELSE TrainOn(Step(Backward(ZeroGrad(heap))), batches - 1)

\* One pass of the while body: the training batches, epoch += 1, the
\* validation batches and the new validation score.  `fail_at` is the
\* position of the first batch on which _loss raises (0: none).
TrainEpoch ==
    /\ pc = "epoch"
    /\ LET K == TrainNumAtoms
           tb == TrainBatches(num_training_examples, clipped_batch_size)
           vb == ValBatches(num_validation_examples, clipped_batch_size)
           calls == tb \o vb
       IN \E fail_at \in 0..Len(calls), score \in Scores :
            /\ \A i \in 1..Len(calls) :
                  /\ (i < fail_at \/ fail_at = 0) => LossCanReturn(calls[i], K)
                  /\ i = fail_at => LossCanRaise(calls[i], K)
            /\ fail_at # 0 => score = 0
            /\ LET handed == IF fail_at = 0 THEN Len(calls) ELSE fail_at
                   trained == IF fail_at = 0 \/ fail_at > Len(tb)
                              THEN Len(tb) ELSE fail_at - 1
                   heap == TrainOn(nets, trained)
               IN /\ loss_calls' = loss_calls \cup
                         {<<calls[i], K>> : i \in 1..handed}
                  /\ nets' = IF fail_at \in 1..Len(tb)
                             THEN ZeroGrad(heap) ELSE heap
                  /\ epoch' = IF fail_at \in 1..Len(tb)
                              THEN epoch ELSE epoch + 1
                  /\ val_log_prob' = IF fail_at = 0 THEN score
                                     ELSE val_log_prob
                  /\ val_hist' = IF fail_at = 0 THEN Append(val_hist, score)
                                 ELSE val_hist
                  /\ pc' = IF fail_at = 0 THEN "loop" ELSE "error"
    /\ UNCHANGED <<outsideDriver, cfg, round_, max_num_epochs, num_sims_per_round,
                   roundLocals, bankVars, warnings, posterior,
                   untrained_classifier, optimizer, splitVars,
                   best_val_log_prob, epochs_since_last_improvement,
                   best_model_state_dict, summary, num_trained_rounds,
                   n_valid, fitted, sampled_from>>

\* Variant: the last validation score is recorded.
RecordedLast == val_log_prob

\* The value appended to self._summary["best_validation_log_probs"].
RecordedBest == best_val_log_prob

\* End of _train: the summary of the round's training.
TrainEnd ==
    /\ pc = "train_end"
    /\ summary' =
          [summary EXCEPT
              !.epochs = Append(@, epoch),
              !.best_validation_log_probs = Append(@, RecordedBest)]
    /\ fitted' = Append(fitted, [net |-> posterior, w |-> nets[posterior].w])
    /\ pc' = "summarize"
    /\ UNCHANGED <<outsideDriver, cfg, round_, max_num_epochs, num_sims_per_round,
                   roundLocals, bankVars, warnings, netVars, splitVars,
                   stopVars, num_trained_rounds, val_hist, loss_calls,
                   n_valid, sampled_from>>

\* SUMMARIZE (self._summarize reports only) and the step of the round loop.
Summarize ==
    /\ pc = "summarize"
    /\ IF round_ + 1 < Len(num_sims_per_round)
       THEN /\ round_' = round_ + 1
            /\ pc' = "sample"
       ELSE /\ round_' = round_
            /\ pc' = "return"
    /\ UNCHANGED <<outsideDriver, cfg, max_num_epochs, num_sims_per_round, roundLocals,
                   bankVars, warnings, netVars, splitVars, stopVars, summary,
                   num_trained_rounds, histVars>>

\* Variant: the tag is the index of the last round of the loop.
TrainedRoundsTagLoopIndex == round_

\* The value assigned to self._posterior._num_trained_rounds.
TrainedRoundsTag == cfg.num_rounds

\* self._posterior._num_trained_rounds = num_rounds; return self._posterior
Return ==
    /\ pc = "return"
    /\ num_trained_rounds' = TrainedRoundsTag
    /\ pc' = "done"
    /\ UNCHANGED <<outsideDriver, cfg, round_, max_num_epochs, num_sims_per_round,
                   roundLocals, bankVars, warnings, netVars, splitVars,
                   stopVars, summary, histVars>>

(* --------------------------- specification ---------------------------- *)
\* num_simulations_per_round: one integer, or one integer per round; at
\* most `total` simulations over the whole run.
SimCounts(rounds, total) ==
    {c \in {[kind |-> "int", val |-> n] : n \in 1..total}
              \cup {[kind |-> "list", val |-> l] :
                       l \in [1..rounds -> 1..total]} :
        SumLens([r \in 1..rounds |->
                    [k \in 1..EnsureList(c, rounds)[r] |-> k]]) <= total}

\* Validation fractions: half of the rows, three quarters of the rows.
Half == [num |-> 1, den |-> 2]
ThreeQuarters == [num |-> 3, den |-> 4]

\* A simulator that can return NaN or Inf, run by several workers: few
\* simulations, every order of the results and every kind of x, one epoch
\* of training per round.
FaultyConfigs ==
    UNION {[num_rounds : {rounds},
            num_simulations_per_round : SimCounts(rounds, MaxSims),
            num_atoms : {MinAtoms},
            batch_size : {MaxBatch},
            validation_fraction : {ThreeQuarters},
            stop_after_epochs : {1},
            max_num_epochs : {0},
            retrain_from_scratch_each_round : {FALSE},
            exclude_invalid_x : BOOLEAN,
            num_workers : {2},
            simulator : {"faulty"}] : rounds \in 1..MaxRounds}

\* A simulator that returns finite x in the order asked, no round or several
\* rounds of at most two epochs, with and without retraining from scratch.
RoundsConfigs ==
    [num_rounds : 0..MaxRounds,
     num_simulations_per_round :
         {[kind |-> "int", val |-> n] : n \in 1..MaxTrainSims},
     num_atoms : {MinAtoms},
     batch_size : {2},
     validation_fraction : {Half},
     stop_after_epochs : {1},
     max_num_epochs : {1},
     retrain_from_scratch_each_round : BOOLEAN,
     exclude_invalid_x : {FALSE},
     num_workers : {1},
     simulator : {"finite"}]

\* One round on finite x: every atom count against every batch size.
AtomConfigs ==
    [num_rounds : {1},
     num_simulations_per_round :
         {[kind |-> "int", val |-> n] : n \in 1..MaxTrainSims},
     num_atoms : 1..(MaxBatch + 1),
     batch_size : 1..MaxBatch,
     validation_fraction : {Half},
     stop_after_epochs : {1},
     max_num_epochs : {0},
     retrain_from_scratch_each_round : {FALSE},
     exclude_invalid_x : {FALSE},
     num_workers : {1},
     simulator : {"finite"}]

\* One round on finite x: every patience window against every ceiling.
StopConfigs ==
    [num_rounds : {1},
     num_simulations_per_round : {[kind |-> "int", val |-> 4]},
     num_atoms : {MinAtoms},
     batch_size : {2},
     validation_fraction : {Half},
     stop_after_epochs : 1..MaxStop,
     max_num_epochs : {None} \cup 0..MaxCeiling,
     retrain_from_scratch_each_round : {FALSE},
     exclude_invalid_x : {FALSE},
     num_workers : {1},
     simulator : {"finite"}]

Configs == FaultyConfigs \cup RoundsConfigs \cup AtomConfigs \cup StopConfigs

Init == NoLoss /\ NoFlows /\ NoPotential /\ \E c \in Configs : Constructed(c)

vars == <<driverVars, atomVars, flowVars, potentialVars>>

Next ==
    \/ Call
    \/ Sample
    \/ Simulate
    \/ Filter
    \/ Accumulate
    \/ TrainSetup
    \/ EpochCheck
    \/ TrainEpoch
    \/ TrainEnd
    \/ Summarize
    \/ Return

Spec == Init /\ [][Next]_vars

\* Runs followed to their end: the configurations on finite x, and one or
\* more rounds of one simulation that can be invalid, excluded or not.
InitLive ==
    /\ NoLoss /\ NoFlows /\ NoPotential
    /\ \E c \in RoundsConfigs \cup AtomConfigs \cup StopConfigs \cup
                 [num_rounds : 1..MaxRounds,
                  num_simulations_per_round : {[kind |-> "int", val |-> 1]},
                  num_atoms : {MinAtoms},
                  batch_size : {MaxBatch},
                  validation_fraction : {ThreeQuarters},
                  stop_after_epochs : {1},
                  max_num_epochs : {0},
                  retrain_from_scratch_each_round : {FALSE},
                  exclude_invalid_x : BOOLEAN,
                  num_workers : {1},
                  simulator : {"faulty"}] :
          Constructed(c)

\* __call__ runs in one thread and nothing suspends it: whenever a step of
\* it can be taken, one eventually is.
SpecLive == InitLive /\ [][Next]_vars /\ WF_vars(Next)

\* The split of the bank at the head of _train: one round whose simulator
\* can return invalid rows that are excluded, so that the bank holds from no
\* row to MaxSplit rows, validation fractions from 1/8 to 7/8 and the
\* validation fraction 2^-54.
MaxSplit == 4

SplitConfigs ==
    [num_rounds : {1},
     num_simulations_per_round :
         {[kind |-> "int", val |-> n] : n \in 1..MaxSplit},
     num_atoms : {MinAtoms},
     batch_size : {2},
     validation_fraction :
         {[num |-> n, den |-> 8] : n \in 1..7}
             \cup {[num |-> 1, den |-> 2, exp |-> 53]},
     stop_after_epochs : {1},
     max_num_epochs : {0},
     retrain_from_scratch_each_round : {FALSE},
     exclude_invalid_x : {TRUE},
     num_workers : {1},
     simulator : {"faulty"}]

InitSplit ==
    NoLoss /\ NoFlows /\ NoPotential /\ \E c \in SplitConfigs : Constructed(c)

NextSplit ==
    \/ Call
    \/ Sample
    \/ Simulate
    \/ Filter
    \/ Accumulate
    \/ TrainSplit

SpecSplit == InitSplit /\ [][NextSplit]_vars

\* One loss evaluation on a minibatch: the constructed estimator of either
\* family, a batch of B distinct rows and a requested atom count.
DefaultConfig ==
    [num_rounds |-> 1,
     num_simulations_per_round |-> [kind |-> "int", val |-> 1],
     num_atoms |-> MinAtoms, batch_size |-> MaxBatch,
     validation_fraction |-> Half,
     stop_after_epochs |-> 1, max_num_epochs |-> None,
     retrain_from_scratch_each_round |-> FALSE,
     exclude_invalid_x |-> FALSE, num_workers |-> 1, simulator |-> "finite"]

\* Masks of a batch: every row a prior sample, or the first row a proposal
\* sample.
BatchMasks(B) ==
    {[i \in 0..(B - 1) |-> 1], [i \in 0..(B - 1) |-> IF i = 0 THEN 0 ELSE 1]}

InitAtoms ==
    /\ Constructed(DefaultConfig)
    /\ NoFlows /\ NoPotential
    /\ loss_pc = "input"
    /\ family \in {"snre", "snpe_c"}
    /\ \E B \in 1..MaxAtomBatch :
          /\ theta_batch = [i \in 0..(B - 1) |-> [theta |-> i]]
          /\ x_batch = [i \in 0..(B - 1) |-> [x |-> i]]
          /\ masks = IF family = "snre" THEN <<>> ELSE [i \in 0..(B - 1) |-> 1]
    /\ num_atoms \in 0..(MaxAtomBatch + 1)
    /\ atoms_used = 0
    /\ choices = <<>> /\ atomic_theta = <<>> /\ repeated_x = <<>>
    /\ use_combined_loss = FALSE
    /\ log_probs = <<>> /\ loss_result = [status |-> "none"]

NextAtoms ==
    \/ ClassifierLogits
    \/ LogProbProposalPosterior

SpecAtoms == InitAtoms /\ [][NextAtoms]_vars

\* One evaluation of the APT loss with the least atom count: batches of
\* prior samples and batches whose first row is a proposal sample, with and
\* without the combined loss.
MaxLossBatch == 3

InitLoss ==
    /\ Constructed(DefaultConfig)
    /\ NoFlows /\ NoPotential
    /\ loss_pc = "input"
    /\ family = "snpe_c"
    /\ \E B \in 2..MaxLossBatch :
          /\ theta_batch = [i \in 0..(B - 1) |-> [theta |-> i]]
          /\ x_batch = [i \in 0..(B - 1) |-> [x |-> i]]
          /\ masks \in BatchMasks(B)
    /\ num_atoms = MinAtoms
    /\ atoms_used = 0
    /\ choices = <<>> /\ atomic_theta = <<>> /\ repeated_x = <<>>
    /\ use_combined_loss \in BOOLEAN
    /\ log_probs = <<>> /\ loss_result = [status |-> "none"]

NextLoss == LogProbProposalPosterior

SpecLoss == InitLoss /\ [][NextLoss]_vars

(* ------------------- transform and flow registries -------------------- *)
MaxDim == 5
MaxFlows == 2

\* Python's None for an optional name or object.
NoName == "None"

\* str.lower() on the names in use.
Lower(name) ==
    CASE name = "Affine_Diag" -> "affine_diag"
      [] name = "MyTransform" -> "mytransform"
      [] OTHER -> name

\* cls.__name__
ClassName(cls) == cls

\* Parameters of cls.__init__ after self, in order (pyro.distributions.
\* transforms; MyTransform is a class registered by the user).
Params(cls) ==
    CASE cls = "AffineAutoregressive" ->
            <<"autoregressive_nn", "log_scale_min_clip",
              "log_scale_max_clip", "sigmoid_bias", "stable">>
      [] cls = "SplineAutoregressive" ->
            <<"input_dim", "autoregressive_nn", "count_bins", "bound",
              "order">>
      [] cls = "AffineCoupling" ->
            <<"split_dim", "hypernet", "dim", "log_scale_min_clip",
              "log_scale_max_clip">>
      [] cls = "SplineCoupling" ->
            <<"input_dim", "split_dim", "hypernet", "count_bins", "bound",
              "order", "identity">>
      [] cls = "AffineTransform" ->
            <<"loc", "scale", "event_dim", "cache_size">>
      [] cls = "LowerCholeskyAffine" -> <<"loc", "scale_tril", "cache_size">>
      [] OTHER -> <<"input_dim", "count_bins">>

ParamNames(cls) == {Params(cls)[i] : i \in 1..Len(Params(cls))}

\* kwargs.get(key, default) and kwargs.pop(key, default) on the callee's own
\* copy of the keyword arguments.
Get(kwargs, key, default) ==
    IF key \in DOMAIN kwargs THEN kwargs[key] ELSE default

\* {**a, **b}: the entries of b win.
Merge(a, b) == b @@ a

\* dict restricted to some keys.
Restrict(kwargs, keys) == [k \in DOMAIN kwargs \cap keys |-> kwargs[k]]

\* filter_kwrags_for_func(f, kwargs): the keyword arguments f can take.
FilterKwargsForFunc(cls, kwargs) == Restrict(kwargs, ParamNames(cls))

\* AutoRegressiveNN(input_dim, hidden_dims, param_dims=[1, 1]) and
\* DenseNN(input_dim, hidden_dims, param_dims=[1, 1]).
NeuralNet(kind, input_dim, hidden_dims, param_dims) ==
    [nn |-> kind, input_dim |-> input_dim, hidden_dims |-> hidden_dims,
     param_dims |-> param_dims]

Returned(v) == [status |-> "return", error |-> "", value |-> v]
Raised(e) == [status |-> "raise", error |-> e, value |-> NoName]

init_affine_autoregressive(dim, kwargs) ==
    LET hidden_dims == Get(kwargs, "hidden_dims", <<5 * dim + 5>>)
        arn == NeuralNet("AutoRegressiveNN", dim, hidden_dims, <<1, 1>>)
    IN Returned([args |-> <<arn>>,
                 kwargs |-> ("log_scale_min_clip" :> (0 - 3)),
                 made |-> <<arn>>])

init_spline_autoregressive(dim, kwargs) ==
    LET hidden_dims == Get(kwargs, "hidden_dims", <<5 * dim + 5>>)
        count_bins == Get(kwargs, "count_bins", 10)
        order == Get(kwargs, "order", "linear")
        bound == Get(kwargs, "bound", 5)
        param_dims ==
            IF order = "linear"
            THEN <<count_bins, count_bins, count_bins - 1, count_bins>>
            ELSE <<count_bins, count_bins, count_bins - 1>>
        neural_net == NeuralNet("AutoRegressiveNN", dim, hidden_dims,
                                param_dims)
    IN Returned([args |-> <<dim, neural_net>>,
                 kwargs |-> ("count_bins" :> count_bins @@ "bound" :> bound
                             @@ "order" :> order),
                 made |-> <<neural_net>>])

init_affine_coupling(dim, kwargs) ==
    IF ~(dim > 1) THEN Raised("AssertionError")
    ELSE LET split_dim == Get(kwargs, "split_dim", dim \div 2)
             hidden_dims ==
                 Get(kwargs, "hidden_dims", <<5 * dim + 5, 5 * dim + 5>>)
             arn == NeuralNet("DenseNN", split_dim, hidden_dims, <<1, 1>>)
         IN Returned([args |-> <<split_dim, arn>>,
                      kwargs |-> ("log_scale_min_clip" :> (0 - 3)),
                      made |-> <<arn>>])

init_spline_coupling(dim, kwargs) ==
    IF ~(dim > 1) THEN Raised("AssertionError")
    ELSE LET split_dim == Get(kwargs, "split_dim", dim \div 2)
             hidden_dims ==
                 Get(kwargs, "hidden_dims", <<5 * dim + 5, 5 * dim + 5>>)
             count_bins == Get(kwargs, "count_bins", 10)
             order == Get(kwargs, "order", "linear")
             bound == Get(kwargs, "bound", 5)
             rest == dim - split_dim
             param_dims ==
                 IF order = "linear"
                 THEN <<rest * count_bins, rest * count_bins,
                        rest * (count_bins - 1), rest * count_bins>>
                 ELSE <<rest * count_bins, rest * count_bins,
                        rest * (count_bins - 1)>>
             neural_net == NeuralNet("DenseNN", split_dim, hidden_dims,
                                     param_dims)
         IN Returned([args |-> <<dim, split_dim, neural_net>>,
                      kwargs |-> ("count_bins" :> count_bins
                                  @@ "bound" :> bound @@ "order" :> order),
                      made |-> <<neural_net>>])

\* inits of affine_diag: ([], {"loc": zeros(dim), "scale": ones(dim)})
init_affine_diag(dim, kwargs) ==
    Returned([args |-> <<>>,
              kwargs |-> ("loc" :> [zeros |-> dim]
                          @@ "scale" :> [ones |-> dim]),
              made |-> <<>>])

\* inits of affine_tril: ([], {"loc": zeros(dim), "scale_tril": eye(dim)})
init_affine_tril(dim, kwargs) ==
    Returned([args |-> <<>>,
              kwargs |-> ("loc" :> [zeros |-> dim]
                          @@ "scale_tril" :> [eye |-> dim]),
              made |-> <<>>])

\* The default of register_transform: lambda *args, **kwargs: (args, kwargs)
init_default(dim, kwargs) ==
    Returned([args |-> <<dim>>, kwargs |-> kwargs, made |-> <<>>])

\* _TRANSFORMS_INITS[name](dim, **kwargs)
ApplyInits(inits, dim, kwargs) ==
    CASE inits = "init_affine_autoregressive" ->
            init_affine_autoregressive(dim, kwargs)
      [] inits = "init_spline_autoregressive" ->
            init_spline_autoregressive(dim, kwargs)
      [] inits = "init_affine_coupling" -> init_affine_coupling(dim, kwargs)
      [] inits = "init_spline_coupling" -> init_spline_coupling(dim, kwargs)
      [] inits = "init_affine_diag" -> init_affine_diag(dim, kwargs)
      [] inits = "init_affine_tril" -> init_affine_tril(dim, kwargs)
      [] OTHER -> init_default(dim, kwargs)

\* cls(*args, **kwargs): Python binds the positional arguments to the first
\* parameters and refuses a keyword that is bound already or is unknown.
Construct(cls, args, kwargs) ==
    LET params == Params(cls)
        positional == {params[i] : i \in 1..Min(Len(args), Len(params))}
    IN IF Len(args) > Len(params)
       THEN Raised("TypeError: too many positional arguments")
       ELSE IF DOMAIN kwargs \cap positional # {}
       THEN Raised("TypeError: multiple values for argument")
       ELSE IF ~(DOMAIN kwargs \subseteq ParamNames(cls))
       THEN Raised("TypeError: unexpected keyword argument")
       ELSE Returned([cls |-> cls,
                      bound |-> [p \in positional \cup DOMAIN kwargs |->
                                    IF p \in DOMAIN kwargs THEN kwargs[p]
                                    ELSE args[CHOOSE i \in 1..Len(args) :
                                                 params[i] = p]]])

\* kwargs = {**default_kwargs, **overwritable_kwargs}
MergedKwargs(default_kwargs, overwritable_kwargs) ==
    Merge(default_kwargs, overwritable_kwargs)

\* Variant: the name is looked up as it was typed.
LookupNameAsTyped(name) == name

\* name = name.lower()
LookupName(name) == Lower(name)

\* get_transform(name, dim, **kwargs) against the registries T and TI.
GetTransformResult(T, TI, name, dim, kwargs) ==
    LET lowered == LookupName(name)
    IN IF lowered \notin DOMAIN T THEN Raised("KeyError")
       ELSE LET transform == T[lowered]
                overwritable_kwargs == FilterKwargsForFunc(transform, kwargs)
                inits == ApplyInits(TI[lowered], dim, kwargs)
            IN IF inits.status = "raise" THEN inits
               ELSE Construct(T[lowered], inits.value.args,
                              MergedKwargs(inits.value.kwargs,
                                           overwritable_kwargs))

\* What get_transform constructs: nothing when the lookup or the initializer
\* raises, else the initializer's network and the transform, if it binds.
GetTransformConstructs(T, TI, name, dim, kwargs) ==
    LET lowered == LookupName(name)
    IN IF lowered \notin DOMAIN T THEN <<>>
       ELSE LET inits == ApplyInits(TI[lowered], dim, kwargs)
                made == GetTransformResult(T, TI, name, dim, kwargs)
            IN IF inits.status = "raise" THEN <<>>
               ELSE inits.value.made
                    \o (IF made.status = "return" THEN <<made.value>>
                        ELSE <<>>)

(* ---------------------------- build_flow ------------------------------ *)
\* torch.zeros(event_shape): the shape of the tensor, or a TypeError for a
\* shape that is neither an integer nor a sequence of integers.
Zeros(event_shape) ==
    CASE event_shape.kind = "int" -> Returned(<<event_shape.val>>)
      [] event_shape.kind \in {"tuple", "size"} -> Returned(event_shape.val)
      [] OTHER -> Raised("TypeError")

\* len(link_flow(t)) for a tensor of shape `shape`: the link changes the
\* last dimension by link_flow.delta, len() is the first dimension.
ProbeLen(link_flow, shape) ==
    IF Len(shape) = 1 THEN shape[1] + link_flow.delta ELSE shape[1]

\* Variant: the nominal shape is kept as it is.
EffectiveShapeNominal(event_shape, probe_len) ==
    IF event_shape.kind = "int" THEN Raised("TypeError")
    ELSE Returned([kind |-> "size", val |-> event_shape.val])

\* torch.Size(torch.tensor(event_shape) - additional_dim) with
\* additional_dim = probe_len - torch.tensor(event_shape): elementwise on a
\* sequence; torch.tensor of an integer has no dimension to iterate.
EffectiveShape(event_shape, probe_len) ==
    IF event_shape.kind = "int" THEN Raised("TypeError")
    ELSE Returned([kind |-> "size",
                   val |-> [i \in 1..Len(event_shape.val) |->
                              event_shape.val[i]
                              - (probe_len - event_shape.val[i])]])

\* The dimension of the inner transforms (lines 365-370).
FlowDim(event_shape) ==
    IF event_shape.kind = "int" THEN Returned(event_shape.val)
    ELSE IF event_shape.kind \in {"tuple", "size"}
    THEN Returned(event_shape.val[Len(event_shape.val)])
    ELSE Raised("ValueError: The eventshape must either be an Integer or a Iterable.")

\* Variant: the interleaved transform follows every layer.
EveryLayer(i, num_flows) == i < num_flows

\* i < num_flows - 1
NotLastLayer(i, num_flows) == i < num_flows - 1

RECURSIVE Layers(_, _, _, _, _, _)
\* for i in range(num_flows): the transform, then the permutation and the
\* batch normalization the toggles ask for.
Layers(i, num_flows, made, dim, permute, batch_norm) ==
    IF i >= num_flows THEN <<>>
    ELSE <<[kind |-> "transform", of |-> made]>>
         \o (IF permute /\ NotLastLayer(i, num_flows)
             THEN <<[kind |-> "permute", of |-> dim]>> ELSE <<>>)
         \o (IF batch_norm /\ NotLastLayer(i, num_flows)
             THEN <<[kind |-> "batchnorm", of |-> dim]>> ELSE <<>>)
         \o Layers(i + 1, num_flows, made, dim, permute, batch_norm)

\* Variant: the link transform comes first.
WithLinkFirst(flows, link_flow) ==
    <<[kind |-> "link", of |-> link_flow]>> \o flows

\* flows.append(link_flow.with_cache())
WithLink(flows, link_flow) == Append(flows, [kind |-> "link", of |-> link_flow])

FlowReturned(v, made) ==
    [status |-> "return", error |-> "", value |-> v, made |-> made]
FlowRaised(e, made) ==
    [status |-> "raise", error |-> e, value |-> NoName, made |-> made]

\* build_flow(event_shape, link_flow, num_flows, transform, permute,
\* batch_norm, base_dist=None, **kwargs) against the registries T and TI.
BuildFlowResult(T, TI, event_shape, link_flow, num_flows, transform, permute, batch_norm, kwargs) ==
    LET zeros == Zeros(event_shape)
    IN IF zeros.status = "raise" THEN FlowRaised(zeros.error, <<>>)
       ELSE
       LET effective ==
               EffectiveShape(event_shape, ProbeLen(link_flow, zeros.value))
       IN IF effective.status = "raise" THEN FlowRaised(effective.error, <<>>)
          ELSE
          LET dim == FlowDim(effective.value)
              made == GetTransformResult(T, TI, transform, dim.value, kwargs)
          IN IF dim.status = "raise"
             THEN FlowRaised(dim.error, <<"base_dist">>)
             ELSE IF num_flows > 0 /\ made.status = "raise"
             THEN FlowRaised(made.error, <<"base_dist">>)
             ELSE LET flows ==
                          WithLink(Layers(0, num_flows, made.value, dim.value,
                                          permute, batch_norm), link_flow)
                  IN FlowReturned(
                        [base_dist |-> [event_shape |-> effective.value.val],
                         dim |-> dim.value,
                         transforms |-> flows],
                        <<"base_dist">>
                        \o [k \in 1..Len(flows) |-> flows[k].kind]
                        \o <<"TransformedDistribution">>)

\* build_flow called with keyword arguments kw: the named parameters take
\* their defaults, the rest goes on to get_transform.
BuildFlowKw(T, TI, event_shape, link_flow, kw) ==
    BuildFlowResult(T, TI, event_shape, link_flow,
                    Get(kw, "num_flows", 5),
                    Get(kw, "transform", "affine_autoregressive"),
                    Get(kw, "permute", TRUE),
                    Get(kw, "batch_norm", FALSE),
                    Restrict(kw, DOMAIN kw \ {"num_flows", "transform",
                                              "permute", "batch_norm",
                                              "base_dist"}))

\* kwargs.pop(key) for every key of `keys` that is present.
Pop(kwargs, keys) == Restrict(kwargs, DOMAIN kwargs \ keys)

\* Variant: a builder hands the caller's keyword arguments on as they are.
BuilderCallerOptions(T, TI, builder, event_shape, link_flow, kwargs) ==
    BuildFlowKw(T, TI, event_shape, link_flow, kwargs)

\* The registered builder functions (lines 384-588) and a builder
\* registered by the user.
Builder(T, TI, builder, event_shape, link_flow, kwargs) ==
    CASE builder = "gaussian_diag_flow_builder" ->
            BuildFlowKw(T, TI, event_shape, link_flow,
                        ("transform" :> "affine_diag" @@ "num_flows" :> 1
                         @@ "shuffle" :> FALSE)
                        @@ Pop(kwargs, {"transform", "base_dist",
                                        "num_flows"}))
      [] builder = "gaussian_flow_builder" ->
            BuildFlowKw(T, TI, event_shape, link_flow,
                        ("transform" :> "affine_tril" @@ "shuffle" :> FALSE
                         @@ "num_flows" :> 1)
                        @@ Pop(kwargs, {"transform", "base_dist",
                                        "num_flows"}))
      [] builder = "masked_autoregressive_flow_builder" ->
            BuildFlowKw(T, TI, event_shape, link_flow,
                        ("transform" :> "affine_autoregressive")
                        @@ Pop(kwargs, {"transform"}))
      [] builder = "spline_autoregressive_flow_builder" ->
            BuildFlowKw(T, TI, event_shape, link_flow,
                        ("transform" :> "spline_autoregressive")
                        @@ Pop(kwargs, {"transform"}))
      [] builder = "coupling_flow_builder" ->
            BuildFlowKw(T, TI, event_shape, link_flow,
                        ("transform" :> "affine_coupling")
                        @@ Pop(kwargs, {"transform"}))
      [] builder = "spline_coupling_flow_builder" ->
            BuildFlowKw(T, TI, event_shape, link_flow,
                        ("transform" :> "spline_coupling")
                        @@ Pop(kwargs, {"transform"}))
      [] OTHER -> FlowReturned([built_by |-> builder], <<builder>>)

\* get_flow_builder(name, event_shape, link_flow, **kwargs)
GetFlowBuilderResult(T, TI, F, name, event_shape, link_flow, kwargs) ==
    IF name \notin DOMAIN F THEN FlowRaised("KeyError", <<>>)
    ELSE Builder(T, TI, F[name], event_shape, link_flow, kwargs)

(* ------------------------ registry operations ------------------------- *)
\* The registries once the module is loaded (lines 220-277, 384-588).
LoadedTransforms ==
    "affine_autoregressive" :> "AffineAutoregressive"
    @@ "spline_autoregressive" :> "SplineAutoregressive"
    @@ "affine_coupling" :> "AffineCoupling"
    @@ "spline_coupling" :> "SplineCoupling"
    @@ "affine_diag" :> "AffineTransform"
    @@ "affine_tril" :> "LowerCholeskyAffine"

LoadedInits ==
    "affine_autoregressive" :> "init_affine_autoregressive"
    @@ "spline_autoregressive" :> "init_spline_autoregressive"
    @@ "affine_coupling" :> "init_affine_coupling"
    @@ "spline_coupling" :> "init_spline_coupling"
    @@ "affine_diag" :> "init_affine_diag"
    @@ "affine_tril" :> "init_affine_tril"

LoadedFlowBuilders ==
    "gaussian_diag" :> "gaussian_diag_flow_builder"
    @@ "gaussian" :> "gaussian_flow_builder"
    @@ "maf" :> "masked_autoregressive_flow_builder"
    @@ "nsf" :> "spline_autoregressive_flow_builder"
    @@ "mcf" :> "coupling_flow_builder"
    @@ "scf" :> "spline_coupling_flow_builder"

\* Variant: a name is never taken to be present.
AlreadyRegisteredNever(registry, cls_name) == FALSE

\* cls_name in _TRANSFORMS, cls_name in _FLOW_BUILDERS
AlreadyRegistered(registry, cls_name) == cls_name \in DOMAIN registry

\* The name an object is registered under (lines 39-42, 100-103).
RegisteredName(cls, name) == IF name = NoName THEN ClassName(cls) ELSE name

\* registry[key] = value
Assign(registry, key, value) == (key :> value) @@ registry

\* register_transform(cls, name, inits)
RegisterTransform ==
    \E cls \in {"MyTransform"},
       name \in {NoName, "affine_diag"},
       inits \in {"init_default"} :
       LET cls_name == RegisteredName(cls, name)
       IN /\ flow_call' = [op |-> "register_transform",
                           args |-> [cls |-> cls, name |-> name,
                                     inits |-> inits]]
          /\ IF AlreadyRegistered(TRANSFORMS, cls_name)
             THEN /\ flow_result' = Raised("ValueError")
                  /\ UNCHANGED <<TRANSFORMS, TRANSFORMS_INITS>>
             ELSE /\ TRANSFORMS' = Assign(TRANSFORMS, cls_name, cls)
                  /\ TRANSFORMS_INITS' =
                        Assign(TRANSFORMS_INITS, cls_name, inits)
                  /\ flow_result' = Returned(cls)
          /\ constructed' = <<>>
          /\ UNCHANGED <<FLOW_BUILDERS, driverVars, atomVars, potentialVars>>

\* register_flow_builder(cls, name)
RegisterFlowBuilder ==
    \E cls \in {"my_flow_builder"},
       name \in {"my_flow", "maf"} :
       LET cls_name == RegisteredName(cls, name)
       IN /\ flow_call' = [op |-> "register_flow_builder",
                           args |-> [cls |-> cls, name |-> name]]
          /\ IF AlreadyRegistered(FLOW_BUILDERS, cls_name)
             THEN /\ flow_result' = Raised("ValueError")
                  /\ UNCHANGED FLOW_BUILDERS
             ELSE /\ FLOW_BUILDERS' = Assign(FLOW_BUILDERS, cls_name, cls)
                  /\ flow_result' = Returned(cls)
          /\ constructed' = <<>>
          /\ UNCHANGED <<TRANSFORMS, TRANSFORMS_INITS, driverVars, atomVars,
                         potentialVars>>

\* Keyword options a caller passes on, each with a value that differs from
\* the default the initializers compute.
CallerOptions ==
    "hidden_dims" :> <<4>> @@ "count_bins" :> 4 @@ "bound" :> 3
    @@ "order" :> "quadratic" @@ "split_dim" :> 1
    @@ "log_scale_min_clip" :> (0 - 5)

NoKwargs == Restrict(CallerOptions, {})

\* No option, one option, or all of them.
CallerKwargs ==
    {NoKwargs, CallerOptions}
    \cup {Restrict(CallerOptions, {o}) : o \in DOMAIN CallerOptions}

\* Names a caller looks a transform up by.
TransformLookups ==
    {"affine_autoregressive", "spline_autoregressive", "affine_coupling",
     "spline_coupling", "affine_diag", "affine_tril", "Affine_Diag",
     "MyTransform", "no_such_transform"}

\* get_transform(name, dim, **kwargs)
GetTransform ==
    \E name \in TransformLookups, dim \in {1, MaxDim},
       kwargs \in CallerKwargs :
       /\ flow_call' = [op |-> "get_transform",
                        args |-> [name |-> name, dim |-> dim,
                                  kwargs |-> kwargs]]
       /\ flow_result' =
             GetTransformResult(TRANSFORMS, TRANSFORMS_INITS, name, dim,
                                kwargs)
       /\ constructed' =
             GetTransformConstructs(TRANSFORMS, TRANSFORMS_INITS, name, dim,
                                    kwargs)
       /\ UNCHANGED <<TRANSFORMS, TRANSFORMS_INITS, FLOW_BUILDERS, driverVars,
                      atomVars, potentialVars>>

\* Link transforms by the change of length they make: none, one entry more
\* (a simplex-valued link), one entry less.
Links ==
    {[name |-> "identity", delta |-> 0],
     [name |-> "simplex", delta |-> 1],
     [name |-> "drop_last", delta |-> 0 - 1]}

\* Event shapes: an integer, a sequence of one or two integers, None.
EventShapes ==
    {[kind |-> "int", val |-> n] : n \in 2..MaxDim}
    \cup {[kind |-> "tuple", val |-> <<n>>] : n \in 2..MaxDim}
    \cup {[kind |-> "tuple", val |-> <<2, n>>] : n \in 2..MaxDim}
    \cup {[kind |-> "none", val |-> <<>>]}

\* Calls of build_flow: every event shape under every link with one affine
\* layer, and every layer count and toggle on a shape of one integer.
BuildFlowCalls ==
    [event_shape : EventShapes, link_flow : Links, num_flows : {1},
     transform : {"affine_diag"}, permute : {TRUE}, batch_norm : {FALSE},
     kwargs : {NoKwargs}]
    \cup
    [event_shape : {[kind |-> "tuple", val |-> <<MaxDim>>]},
     link_flow : {[name |-> "identity", delta |-> 0]},
     num_flows : 0..MaxFlows,
     transform : {"affine_autoregressive", "no_such_transform"},
     permute : BOOLEAN, batch_norm : BOOLEAN,
     kwargs : {NoKwargs}]

\* build_flow(event_shape, link_flow, num_flows, transform, permute,
\* batch_norm, **kwargs)
BuildFlow ==
    \E call \in BuildFlowCalls :
       LET built == BuildFlowResult(TRANSFORMS, TRANSFORMS_INITS,
                                    call.event_shape, call.link_flow,
                                    call.num_flows, call.transform,
                                    call.permute, call.batch_norm,
                                    call.kwargs)
       IN /\ flow_call' = [op |-> "build_flow", args |-> call]
          /\ flow_result' = [status |-> built.status, error |-> built.error,
                             value |-> built.value]
          /\ constructed' = built.made
          /\ UNCHANGED <<TRANSFORMS, TRANSFORMS_INITS, FLOW_BUILDERS,
                         driverVars, atomVars, potentialVars>>

\* Names a caller looks a flow builder up by.
FlowLookups ==
    {"gaussian_diag", "gaussian", "maf", "nsf", "mcf", "scf", "MAF",
     "my_flow", "no_such_flow"}

\* Keyword arguments handed to a flow builder.
FlowKwargs ==
    {NoKwargs, "num_flows" :> MaxFlows,
     "num_flows" :> MaxFlows @@ "permute" :> FALSE
        @@ "transform" :> "affine_tril"}

\* get_flow_builder(name, event_shape, link_flow, **kwargs)
GetFlowBuilder ==
    \E name \in FlowLookups,
       event_shape \in {[kind |-> "tuple", val |-> <<MaxDim>>]},
       link_flow \in {[name |-> "identity", delta |-> 0]},
       kwargs \in FlowKwargs :
       LET built == GetFlowBuilderResult(TRANSFORMS, TRANSFORMS_INITS,
                                         FLOW_BUILDERS, name, event_shape,
                                         link_flow, kwargs)
       IN /\ flow_call' = [op |-> "get_flow_builder",
                           args |-> [name |-> name,
                                     event_shape |-> event_shape,
                                     link_flow |-> link_flow,
                                     kwargs |-> kwargs]]
          /\ flow_result' = [status |-> built.status, error |-> built.error,
                             value |-> built.value]
          /\ constructed' = built.made
          /\ UNCHANGED <<TRANSFORMS, TRANSFORMS_INITS, FLOW_BUILDERS,
                         driverVars, atomVars, potentialVars>>

\* The module is loaded: the estimator and the provider play no part.
InitFlows ==
    /\ Constructed(DefaultConfig)
    /\ NoLoss /\ NoPotential
    /\ TRANSFORMS = LoadedTransforms
    /\ TRANSFORMS_INITS = LoadedInits
    /\ FLOW_BUILDERS = LoadedFlowBuilders
    /\ flow_call = [op |-> "import"]
    /\ flow_result = Returned(NoName)
    /\ constructed = <<>>

NextFlows ==
    \/ RegisterTransform
    \/ RegisterFlowBuilder
    \/ GetTransform
    \/ GetFlowBuilder
    \/ BuildFlow

SpecFlows == InitFlows /\ [][NextFlows]_vars

(* --------------------- PotentialFunctionProvider ---------------------- *)
MaxRequests == 2
MaxTheta == 2

\* Collaborators of a request: a prior and a classifier are told apart by a
\* weight, an observation by its value.
Priors == {[scale |-> 1], [scale |-> 2]}
Classifiers == {[w |-> 1], [w |-> 3]}
Observations == {1, 2}
McmcMethods == {"slice_np", "slice", "hmc", "nuts"}

\* self.classifier(torch.cat((theta, x), dim=1)): the classifier's logit.
LogRatio(classifier, th, xo) == classifier.w * (th + 2 * xo)

\* self.prior.log_prob(theta)
LogProb(prior, th) == 0 - prior.scale * th * th

\* np_potential(self, theta): reads the provider's attributes when called.
NpPotentialValue(self, th) ==
    LogRatio(self.classifier, th, self.x) + LogProb(self.prior, th)

\* Variant: the same sign as the numpy potential.
PyroPotentialValueUnnegated(self, th) ==
    LogRatio(self.classifier, th, self.x) + LogProb(self.prior, th)

\* pyro_potential(self, theta): reads the provider's attributes when called.
PyroPotentialValue(self, th) ==
    0 - (LogRatio(self.classifier, th, self.x)
         + LogProb(self.prior, th))

\* Requests that differ from the first prior, classifier and observation in
\* at most one of them, for every mcmc_method.
Requests ==
    {r \in [prior : Priors, classifier : Classifiers, x : Observations,
            mcmc_method : McmcMethods] :
        Cardinality({k \in {"prior", "classifier", "x"} :
                        r[k] # [prior |-> [scale |-> 1],
                                classifier |-> [w |-> 1], x |-> 1][k]}) <= 1}

\* PotentialFunctionProvider.__call__(prior, classifier, x, mcmc_method): the
\* attributes are set and a bound method of the provider is returned.
ProviderCall ==
    /\ Len(potentials) < MaxRequests
    /\ \E r \in Requests :
          /\ provider' = [set |-> TRUE, classifier |-> r.classifier,
                          prior |-> r.prior, x |-> r.x]
          /\ potentials' =
                Append(potentials,
                       [fn |-> IF r.mcmc_method \in {"slice", "hmc", "nuts"}
                               THEN "pyro_potential" ELSE "np_potential",
                        request |-> r])
    /\ UNCHANGED <<evaluation, driverVars, atomVars, flowVars>>

\* A sampler calls a potential function it was handed: np_potential.
NpPotential ==
    \E i \in 1..Len(potentials), th \in 1..MaxTheta :
       /\ potentials[i].fn = "np_potential"
       /\ evaluation' = [of |-> i, theta |-> th,
                         value |-> NpPotentialValue(provider, th),
                         after |-> Len(potentials)]
       /\ UNCHANGED <<provider, potentials, driverVars, atomVars, flowVars>>

\* A sampler calls a potential function it was handed: pyro_potential.
PyroPotential ==
    \E i \in 1..Len(potentials), th \in 1..MaxTheta :
       /\ potentials[i].fn = "pyro_potential"
       /\ evaluation' = [of |-> i, theta |-> th,
                         value |-> PyroPotentialValue(provider, th),
                         after |-> Len(potentials)]
       /\ UNCHANGED <<provider, potentials, driverVars, atomVars, flowVars>>

\* A provider as the posterior constructs it: no attribute set.
InitPotential ==
    /\ Constructed(DefaultConfig)
    /\ NoLoss /\ NoFlows /\ NoPotential

NextPotential ==
    \/ ProviderCall
    \/ NpPotential
    \/ PyroPotential

SpecPotential == InitPotential /\ [][NextPotential]_vars

(* ------------------------------ claims -------------------------------- *)
Last(s) == s[Len(s)]

RECURSIVE SumSeq(_)
SumSeq(s) == IF s = <<>> THEN 0 ELSE Head(s) + SumSeq(Tail(s))

\* States of a round that follow its ACCUMULATE step.
AfterAccumulate == {"train", "loop", "epoch", "train_end", "summarize"}

\* States inside _train after the split sizes are known.
InTraining == {"loop", "epoch", "train_end"}

\* C1: after R rounds the theta bank and the x bank hold R entries each,
\* entry r has exactly the n_r rows that passed the filter in round r in both
\* banks, and the concatenation that is trained on has n_1 + ... + n_R rows.
C1_BankAccumulation ==
    /\ Len(theta_bank) = Len(x_bank)
    /\ pc \in AfterAccumulate => Len(theta_bank) = round_ + 1
    /\ pc = "done" => Len(theta_bank) = cfg.num_rounds
    /\ \A r \in 1..Len(theta_bank) :
          /\ Len(theta_bank[r]) = n_valid[r]
          /\ Len(x_bank[r]) = n_valid[r]
    /\ pc \in InTraining =>
          /\ num_examples = SumSeq(SubSeq(n_valid, 1, Len(theta_bank)))
          /\ Len(Cat(theta_bank)) = num_examples
          /\ Len(Cat(x_bank)) = num_examples

\* Two rounds returned, with different numbers of valid rows, the second
\* round having lost a row to the filter.
C1_Witness ==
    /\ pc = "done"
    /\ Len(theta_bank) = 2
    /\ n_valid[1] # n_valid[2]
    /\ n_valid[2] < num_sims_per_round[2]

\* C2: for B >= 2 rows and 2 <= K <= B atoms, in either family, no row's
\* K - 1 partners include the row itself and they are pairwise distinct.
C2_PartnersExcludeSelfAndDiffer ==
    LET B == Cardinality(DOMAIN theta_batch)
    IN (loss_pc = "done" /\ B >= 2 /\ 2 <= atoms_used /\ atoms_used <= B) =>
          \A i \in 0..(B - 1) :
             /\ DOMAIN choices[i] = 0..(atoms_used - 2)
             /\ \A a \in DOMAIN choices[i] : choices[i][a] # i
             /\ \A a, b \in DOMAIN choices[i] :
                   choices[i][a] = choices[i][b] => a = b

\* Three rows, three atoms: two partners drawn for every row.
C2_Witness ==
    /\ loss_pc = "done"
    /\ family = "snre"
    /\ Cardinality(DOMAIN theta_batch) = 3
    /\ atoms_used = 3
    /\ choices[0][0] = 2 /\ choices[0][1] = 1

\* The score strictly improves for the first p epochs of h and never again.
ImprovesThenPlateaus(h, p) ==
    /\ p \in 1..Len(h)
    /\ \A i \in 1..p : h[i] > (IF i = 1 THEN NegInf ELSE h[i - 1])
    /\ \A j \in (p + 1)..Len(h) : h[j] <= h[p]

\* C3: if the validation score strictly improves for the first p epochs of a
\* round and never again, and p + stop_after_epochs is within the ceiling,
\* the round trains for p + stop_after_epochs epochs and the best score in
\* the summary is the score of epoch p.
C3_EarlyStopping ==
    pc = "summarize" =>
       \A p \in 1..Len(val_hist) :
          (/\ ImprovesThenPlateaus(val_hist, p)
           /\ p + cfg.stop_after_epochs <= max_num_epochs)
          => /\ Last(summary.epochs) = p + cfg.stop_after_epochs
             /\ Last(summary.best_validation_log_probs) = val_hist[p]

\* Two improving epochs, then a patience window of two worse epochs.
C3_Witness ==
    /\ pc = "summarize"
    /\ cfg.stop_after_epochs = 2
    /\ ImprovesThenPlateaus(val_hist, 2)
    /\ Len(val_hist) = 4
    /\ val_hist[4] < val_hist[2]

\* C4: with retrain_from_scratch_each_round, the model a round trains is a
\* fresh deep copy of the untrained classifier saved at construction.
C4_RetrainFromUntrained ==
    (cfg.retrain_from_scratch_each_round /\ pc \in InTraining) =>
       /\ posterior = Len(nets)
       /\ nets[posterior].copyOf = untrained_classifier

\* C5: a round never trains for more than max_num_epochs epochs, and the
\* ceiling is 2^31 - 1 when max_num_epochs is not given.
C5_EpochsWithinCeiling ==
    pc # "call" =>
       /\ max_num_epochs = IF cfg.max_num_epochs = None THEN IntMax
                           ELSE cfg.max_num_epochs
       /\ epoch <= max_num_epochs
       /\ \A r \in 1..Len(summary.epochs) :
             summary.epochs[r] <= max_num_epochs

\* C6: every batch handed to the ratio-estimation loss (a batch of one row
\* has no partner to draw and is left aside) is handed an atom count K with
\* 2 <= K <= rows of the batch, whatever num_atoms was requested.
C6_AtomsFitEveryBatch ==
    \A call \in loss_calls :
       call[1] >= MinAtoms => (MinAtoms <= call[2] /\ call[2] <= call[1])

\* C7: in the APT loss on a batch of B >= 2 rows the atom count used is
\* min(max(num_atoms, 2), B), it lies in [2, B], the atom set has B times
\* that many rows, and the loss does not abort on num_atoms > B.
C7_ProposalAtomsClamped ==
    LET B == Cardinality(DOMAIN theta_batch)
    IN (family = "snpe_c" /\ loss_pc # "input" /\ B >= 2) =>
          /\ atoms_used = Min(Max(num_atoms, 2), B)
          /\ 2 <= atoms_used /\ atoms_used <= B
          /\ loss_pc = "done"
          /\ DOMAIN atomic_theta = 0..(B * atoms_used - 1)
          /\ DOMAIN repeated_x = 0..(B * atoms_used - 1)

\* More atoms requested than the batch has rows.
C7_Witness ==
    /\ family = "snpe_c"
    /\ loss_pc = "done"
    /\ Cardinality(DOMAIN theta_batch) = 3
    /\ num_atoms = 4
    /\ atoms_used = 3

\* C8: every bank row pairs a theta with the x simulated from it, whatever
\* order the simulator returned its results in.
C8_BankRowsAligned ==
    /\ Len(theta_bank) = Len(x_bank)
    /\ \A r \in 1..Len(theta_bank) :
          /\ Len(theta_bank[r]) = Len(x_bank[r])
          /\ \A i \in 1..Len(theta_bank[r]) :
                x_bank[r][i].of = theta_bank[r][i]

\* A round stored in an order other than the one requested.
C8_Witness ==
    \E r \in 1..Len(theta_bank) :
       /\ Len(theta_bank[r]) = 2
       /\ theta_bank[r][1].k > theta_bank[r][2].k

\* Rows of x that are not finite.
Invalid(xs) == {i \in 1..Len(xs) : xs[i].kind # "fin"}

\* C9: under the exclude policy every round appends the raw simulation count
\* minus the invalid rows, the bank never holds a non-finite x, and a warning
\* is logged in every round that excluded a row.
C9_ExcludeInvalid ==
    cfg.exclude_invalid_x =>
       /\ \A r \in 1..Len(x_bank) : \A i \in 1..Len(x_bank[r]) :
             x_bank[r][i].kind = "fin"
       /\ pc \in AfterAccumulate =>
             /\ Len(Last(x_bank)) = Len(x) - Cardinality(Invalid(x))
             /\ Len(Last(theta_bank)) = Len(x) - Cardinality(Invalid(x))
             /\ Cardinality(Invalid(x)) = 1 =>
                   Len(Last(x_bank)) = num_sims_per_round[round_ + 1] - 1
       /\ \A r \in 1..Len(x_bank) :
             Len(x_bank[r]) < num_sims_per_round[r] =>
                \E wn \in warnings :
                   wn.what = "invalid_x" /\ wn.round = r - 1

\* A second round in which exactly one row was excluded.
C9_Witness ==
    /\ cfg.exclude_invalid_x
    /\ pc = "train"
    /\ round_ = 1
    /\ Cardinality(Invalid(x)) = 1
    /\ Len(x_bank[2]) = num_sims_per_round[2] - 1

\* C10: round 0 draws from the prior, round r > 0 from the posterior as it
\* was at the end of round r - 1, and a round draws as many parameters as
\* simulations were requested for it.
C10_ProposalPerRound ==
    /\ \A r \in 1..Len(sampled_from) :
          sampled_from[r] =
             IF r = 1 THEN [src |-> "prior", net |-> 0, w |-> 0]
             ELSE [src |-> "posterior", net |-> fitted[r - 1].net,
                   w |-> fitted[r - 1].w]
    /\ pc = "simulate" =>
          /\ Len(sampled_from) = round_ + 1
          /\ Len(theta) = num_sims_per_round[round_ + 1]
          /\ \A k \in 1..Len(theta) :
                theta[k].from = sampled_from[round_ + 1]

\* A second round drawing from a posterior whose weights were trained.
C10_Witness ==
    /\ pc = "simulate"
    /\ round_ = 1
    /\ Len(theta) >= 2
    /\ theta[1].from.src = "posterior"
    /\ theta[1].from.w > 0

\* C11: when the round driver returns, num_rounds rounds have each been
\* sampled, accumulated, trained and summarised, and the posterior's
\* trained-round tag is the number of rounds trained in the call.
C11_RoundsTrainedAndTagged ==
    pc = "done" =>
       /\ Len(sampled_from) = cfg.num_rounds
       /\ Len(theta_bank) = cfg.num_rounds
       /\ Len(x_bank) = cfg.num_rounds
       /\ Len(fitted) = cfg.num_rounds
       /\ Len(summary.epochs) = cfg.num_rounds
       /\ num_trained_rounds = Len(fitted)
       /\ posterior = IF fitted = <<>> THEN 1 ELSE Last(fitted).net

\* Two rounds with their own simulation counts, trained and returned.
C11_Witness ==
    /\ pc = "done"
    /\ cfg.num_rounds = 2
    /\ cfg.num_simulations_per_round.kind = "list"
    /\ Len(fitted) = 2
    /\ num_trained_rounds = 2

\* C12: registering a name that is present, in either registry, raises
\* ValueError and changes no entry of any registry.
C12_DuplicateRegistrationRefused ==
    [][/\ (/\ flow_call'.op = "register_transform"
           /\ RegisteredName(flow_call'.args.cls, flow_call'.args.name)
                 \in DOMAIN TRANSFORMS)
          => /\ flow_result'.status = "raise"
             /\ flow_result'.error = "ValueError"
             /\ TRANSFORMS' = TRANSFORMS
             /\ TRANSFORMS_INITS' = TRANSFORMS_INITS
             /\ FLOW_BUILDERS' = FLOW_BUILDERS
       /\ (/\ flow_call'.op = "register_flow_builder"
           /\ RegisteredName(flow_call'.args.cls, flow_call'.args.name)
                 \in DOMAIN FLOW_BUILDERS)
          => /\ flow_result'.status = "raise"
             /\ flow_result'.error = "ValueError"
             /\ TRANSFORMS' = TRANSFORMS
             /\ TRANSFORMS_INITS' = TRANSFORMS_INITS
             /\ FLOW_BUILDERS' = FLOW_BUILDERS]_vars

\* A class registered under a name of the loaded module, after a
\* registration that went through: refused, the loaded entry is kept.
C12_Witness ==
    /\ flow_call.op = "register_transform"
    /\ flow_call.args.name = "affine_diag"
    /\ flow_result.status = "raise"
    /\ "MyTransform" \in DOMAIN TRANSFORMS
    /\ TRANSFORMS["affine_diag"] = "AffineTransform"
    /\ TRANSFORMS_INITS["affine_diag"] = "init_affine_diag"

InitReads(inits) ==
    CASE inits = "init_affine_autoregressive" -> {"hidden_dims"}
      [] inits = "init_spline_autoregressive" ->
            {"hidden_dims", "count_bins", "order", "bound"}
      [] inits = "init_affine_coupling" -> {"split_dim", "hidden_dims"}
      [] inits = "init_spline_coupling" ->
            {"split_dim", "hidden_dims", "count_bins", "order", "bound"}
      [] OTHER -> {}

\* The value of option o in the arguments transform object t was built from:
\* its own argument, or the hidden widths of the network handed to it.
OptionUsed(t, o) ==
    IF o \in DOMAIN t.bound THEN t.bound[o]
    ELSE IF "autoregressive_nn" \in DOMAIN t.bound
    THEN t.bound["autoregressive_nn"][o]
    ELSE t.bound["hypernet"][o]

\* C14: for every transform of the loaded module whose initializer accepts
\* the dimension, get_transform returns a transform, and every option the
\* caller supplies that the initializer or the transform knows has the
\* caller's value in the arguments the transform is built from.
C14_CallerOptionsOverride ==
    LET name == Lower(flow_call.args.name)
        kwargs == flow_call.args.kwargs
    IN (/\ flow_call.op = "get_transform"
        /\ name \in DOMAIN LoadedTransforms
        /\ TRANSFORMS[name] = LoadedTransforms[name]
        /\ ApplyInits(TRANSFORMS_INITS[name], flow_call.args.dim,
                      kwargs).status = "return")
       => /\ flow_result.status = "return"
          /\ \A o \in DOMAIN kwargs \cap
                      (InitReads(TRANSFORMS_INITS[name])
                       \cup ParamNames(TRANSFORMS[name])) :
                OptionUsed(flow_result.value, o) = kwargs[o]

\* The dimension a transform object was built for.
TransformDim(t) ==
    CASE t.cls = "AffineAutoregressive" ->
            t.bound["autoregressive_nn"].input_dim
      [] t.cls \in {"AffineTransform", "LowerCholeskyAffine"} ->
            t.bound["loc"].zeros
      [] OTHER -> t.bound["input_dim"]

\* C15: for a nominal shape (n,) and a link that takes m degrees of freedom
\* away, measured as its result on the zero vector of that shape having
\* n + m entries, the base distribution and every inner transform have
\* dimension n - m.
C15_WorkingDimLessProbeGrowth ==
    (/\ flow_call.op = "build_flow"
     /\ flow_call.args.event_shape.kind = "tuple"
     /\ Len(flow_call.args.event_shape.val) = 1
     /\ flow_result.status = "return")
    => LET nominal == flow_call.args.event_shape.val[1]
           m == ProbeLen(flow_call.args.link_flow, <<nominal>>) - nominal
           flows == flow_result.value.transforms
       IN /\ flow_result.value.dim = nominal - m
          /\ flow_result.value.base_dist.event_shape = <<nominal - m>>
          /\ \A k \in 1..Len(flows) :
                /\ flows[k].kind = "transform" =>
                      TransformDim(flows[k].of) = nominal - m
                /\ flows[k].kind \in {"permute", "batchnorm"} =>
                      flows[k].of = nominal - m

\* Nominal shape (5,), a simplex link that returns six entries: dimension 4.
C15_Witness ==
    /\ flow_call.op = "build_flow"
    /\ flow_call.args.event_shape = [kind |-> "tuple", val |-> <<5>>]
    /\ flow_call.args.link_flow.delta = 1
    /\ flow_result.status = "return"
    /\ flow_result.value.dim = 4
    /\ flow_result.value.base_dist.event_shape = <<4>>

\* Positions of the chain that hold an element of the given kind.
Positions(chain, kind) == {k \in 1..Len(chain) : chain[k].kind = kind}

C17_LinkLastOnce ==
    (flow_call.op = "build_flow" /\ flow_result.status = "return")
    => LET chain == flow_result.value.transforms
           link == [kind |-> "link", of |-> flow_call.args.link_flow]
       IN /\ chain # <<>>
          /\ Last(chain) = link
          /\ Positions(chain, "link") = {Len(chain)}
          /\ flow_call.args.num_flows = 0 => chain = <<link>>

\* No inner layer: the chain is the link alone, and with layers it is last.
C17_Witness ==
    /\ flow_call.op = "build_flow"
    /\ flow_result.status = "return"
    /\ flow_call.args.num_flows = 0
    /\ flow_call.args.permute
    /\ Len(flow_result.value.transforms) = 1
    /\ flow_result.value.transforms[1].kind = "link"

\* C18: under the identity link, an integer event shape and a non-empty
\* sequence build the flow with the integer, or the last entry, as the
\* dimension; any other event shape raises the ValueError of line 370.
C18_EventShapeKinds ==
    (/\ flow_call.op = "build_flow"
     /\ flow_call.args.link_flow.delta = 0
     /\ flow_call.args.transform = "affine_diag")
    => LET event_shape == flow_call.args.event_shape
       IN IF event_shape.kind = "int"
          THEN /\ flow_result.status = "return"
               /\ flow_result.value.dim = event_shape.val
          ELSE IF event_shape.kind = "tuple" /\ event_shape.val # <<>>
          THEN /\ flow_result.status = "return"
               /\ flow_result.value.dim = Last(event_shape.val)
          ELSE /\ flow_result.status = "raise"
               /\ flow_result.error =
                     "ValueError: The eventshape must either be an Integer or a Iterable."

\* The potential of theta under a request, before the sign.
RequestPotential(r, th) ==
    LogRatio(r.classifier, th, r.x) + LogProb(r.prior, th)

\* C19: a request for slice, hmc or nuts, and no other, returns the negated
\* potential -(log_ratio + prior log-density) and a request for the numpy
\* sampler the un-negated one; a potential of one kind evaluated right after
\* one of the other kind at the same theta, with the model, prior and
\* observation the provider holds, gives the exact negative.
C19_SignByBackend ==
    /\ [](/\ \A i \in 1..Len(potentials) :
                potentials[i].fn =
                   IF potentials[i].request.mcmc_method
                         \in {"slice", "hmc", "nuts"}
                   THEN "pyro_potential" ELSE "np_potential"
          /\ (evaluation.of = Len(potentials) /\ evaluation.of > 0) =>
                evaluation.value =
                   IF Last(potentials).request.mcmc_method = "slice_np"
                   THEN RequestPotential(Last(potentials).request,
                                         evaluation.theta)
                   ELSE 0 - RequestPotential(Last(potentials).request,
                                             evaluation.theta))
    /\ [][(/\ evaluation.of > 0 /\ evaluation'.of > 0
           /\ evaluation.after = Len(potentials)
           /\ evaluation'.after = Len(potentials)
           /\ evaluation'.theta = evaluation.theta
           /\ potentials[evaluation'.of].fn # potentials[evaluation.of].fn)
          => evaluation'.value = 0 - evaluation.value]_vars

\* A numpy potential and an hmc potential of the same model, prior and
\* observation, the second one evaluated last, to a non-zero value.
C19_Witness ==
    /\ Len(potentials) = 2
    /\ potentials[1].request.mcmc_method = "slice_np"
    /\ potentials[2].request.mcmc_method = "hmc"
    /\ potentials[1].request.classifier = potentials[2].request.classifier
    /\ potentials[1].request.prior = potentials[2].request.prior
    /\ potentials[1].request.x = potentials[2].request.x
    /\ evaluation.of = 2
    /\ evaluation.value < 0

\* C20: every potential the provider has returned evaluates with the model,
\* prior and observation of the request that produced it, whatever requests
\* were made later.
C20_PotentialKeepsItsRequest ==
    evaluation.of > 0 =>
       LET made == potentials[evaluation.of]
       IN evaluation.value =
             IF made.fn = "np_potential"
             THEN RequestPotential(made.request, evaluation.theta)
             ELSE 0 - RequestPotential(made.request, evaluation.theta)

\* The transform a builder of the loaded module is written for.
OwnTransform(name) ==
    CASE name = "maf" -> "affine_autoregressive"
      [] name = "nsf" -> "spline_autoregressive"
      [] name = "mcf" -> "affine_coupling"
      [] name = "scf" -> "spline_coupling"
      [] name = "gaussian" -> "affine_tril"
      [] name = "gaussian_diag" -> "affine_diag"

\* C21: once the module is loaded the flow-builder registry holds exactly
\* maf, nsf, mcf, scf, gaussian and gaussian_diag; a flow one of them builds
\* has inner layers of the builder's own transform only, whatever transform
\* the caller names, and the two gaussian builders build one inner layer
\* whatever num_flows the caller passes (the others build num_flows layers).
C21_BuildersKeepTheirTransform ==
    /\ flow_call.op = "import" =>
          DOMAIN FLOW_BUILDERS =
             {"maf", "nsf", "mcf", "scf", "gaussian", "gaussian_diag"}
    /\ (/\ flow_call.op = "get_flow_builder"
        /\ flow_call.args.name \in DOMAIN LoadedFlowBuilders
        /\ flow_result.status = "return")
       => LET name == flow_call.args.name
              chain == flow_result.value.transforms
              layers == Positions(chain, "transform")
          IN /\ \A k \in layers :
                   chain[k].of.cls = LoadedTransforms[OwnTransform(name)]
             /\ Cardinality(layers) =
                   IF name \in {"gaussian", "gaussian_diag"} THEN 1
                   ELSE Get(flow_call.args.kwargs, "num_flows", 5)

\* The diagonal gaussian builder asked for another transform and for
\* several layers: one layer of its own transform.
C21_Witness ==
    /\ flow_call.op = "get_flow_builder"
    /\ flow_call.args.name = "gaussian_diag"
    /\ "transform" \in DOMAIN flow_call.args.kwargs
    /\ flow_call.args.kwargs["transform"] = "affine_tril"
    /\ flow_call.args.kwargs["num_flows"] > 1
    /\ flow_result.status = "return"
    /\ Cardinality(Positions(flow_result.value.transforms, "transform")) = 1
    /\ flow_result.value.transforms[1].of.cls = "AffineTransform"

\* C22: for B >= 2 rows and K = B atoms, in either family, the loss draws
\* its partners and the partners of every row i are all the other rows:
\* {0, ..., B - 1} minus {i}.
C22_FullComplementOfPartners ==
    LET B == Cardinality(DOMAIN theta_batch)
    IN (loss_pc # "input" /\ B >= 2 /\ atoms_used = B) =>
          /\ loss_pc = "done"
          /\ \A i \in 0..(B - 1) :
                {choices[i][a] : a \in DOMAIN choices[i]} = (0..(B - 1)) \ {i}

\* Three rows and three atoms asked for in the APT loss: the middle row is
\* paired with the first and the last one.
C22_Witness ==
    /\ loss_pc = "done"
    /\ family = "snpe_c"
    /\ Cardinality(DOMAIN theta_batch) = 3
    /\ num_atoms = 3 /\ atoms_used = 3
    /\ {choices[1][a] : a \in DOMAIN choices[1]} = {0, 2}

\* C23: the atom set of B rows and K atoms has B * K rows in B blocks of K:
\* row i * K is theta[i], rows i * K + 1 .. i * K + K - 1 are the thetas of
\* row i's partners, and the repeated observations hold x[i] in every row of
\* block i.
C23_AtomBlocks ==
    LET B == Cardinality(DOMAIN theta_batch)
        K == atoms_used
    IN loss_pc = "done" =>
          /\ DOMAIN atomic_theta = 0..(B * K - 1)
          /\ DOMAIN repeated_x = 0..(B * K - 1)
          /\ \A i \in 0..(B - 1) :
                /\ atomic_theta[i * K] = theta_batch[i]
                /\ \A a \in 1..(K - 1) :
                      atomic_theta[i * K + a] = theta_batch[choices[i][a - 1]]
                /\ \A a \in 0..(K - 1) : repeated_x[i * K + a] = x_batch[i]

\* Three rows, two atoms: the second block starts at row 2 with theta[1],
\* holds one partner, and both its rows carry x[1].
C23_Witness ==
    /\ loss_pc = "done"
    /\ Cardinality(DOMAIN theta_batch) = 3
    /\ atoms_used = 2
    /\ atomic_theta[2] = theta_batch[1]
    /\ atomic_theta[3] = theta_batch[2]
    /\ repeated_x[2] = x_batch[1] /\ repeated_x[3] = x_batch[1]

\* How often SAMPLE, FILTER, ACCUMULATE and TRAIN have been completed.
PhasesDone ==
    <<Len(sampled_from), Len(n_valid), Len(theta_bank), Len(summary.epochs)>>

\* The steps the round driver can take from one position to the next; a
\* failing training aborts the call.
PhaseOrder ==
    {<<"call", "sample">>, <<"call", "return">>, <<"sample", "simulate">>,
     <<"simulate", "filter">>, <<"filter", "accumulate">>,
     <<"accumulate", "train">>, <<"train", "loop">>, <<"loop", "epoch">>,
     <<"epoch", "loop">>, <<"loop", "train_end">>,
     <<"train_end", "summarize">>, <<"summarize", "sample">>,
     <<"summarize", "return">>, <<"return", "done">>,
     <<"train", "error">>, <<"epoch", "error">>}

\* C24: every round goes through SAMPLE, simulate, FILTER, ACCUMULATE, TRAIN
\* and SUMMARIZE in this order, each once; round r + 1 is sampled only after
\* round r was summarized; and round r trains on the concatenation of the
\* bank entries of rounds 0..r, the one appended in round r included.
C24_PhasesInOrder ==
    /\ [](LET r == round_
          IN /\ pc = "sample" => PhasesDone = <<r, r, r, r>>
             /\ pc \in {"simulate", "filter"} =>
                   PhasesDone = <<r + 1, r, r, r>>
             /\ pc = "accumulate" => PhasesDone = <<r + 1, r + 1, r, r>>
             /\ pc \in {"train", "loop", "epoch", "train_end", "error"} =>
                   PhasesDone = <<r + 1, r + 1, r + 1, r>>
             /\ pc = "summarize" =>
                   PhasesDone = <<r + 1, r + 1, r + 1, r + 1>>
             /\ pc \in {"return", "done"} =>
                   LET rounds == Len(num_sims_per_round)
                   IN PhasesDone = <<rounds, rounds, rounds, rounds>>
             /\ pc \in InTraining =>
                   /\ Len(theta_bank) = r + 1
                   /\ num_examples = Len(Cat(theta_bank))
                   /\ num_examples = Len(Cat(x_bank))
                   /\ num_training_examples + num_validation_examples
                         = num_examples)
    /\ [][/\ pc' # pc => <<pc, pc'>> \in PhaseOrder
          /\ round_' # round_ =>
                /\ pc = "summarize" /\ pc' = "sample"
                /\ round_' = round_ + 1]_vars

\* The second round trains on the rows of both rounds, the first round's
\* entry being the larger one.
C24_Witness ==
    /\ pc = "epoch"
    /\ round_ = 1
    /\ Len(theta_bank[1]) > Len(theta_bank[2])
    /\ num_examples = Len(theta_bank[1]) + Len(theta_bank[2])

\* C25: the banks change at the ACCUMULATE step only, which appends one
\* entry to the theta bank and one to the x bank and leaves the entries of
\* earlier rounds as they are, in their order; the TRAIN phase (set-up, epoch
\* loop with its loss evaluations, end) leaves both banks unchanged.
C25_BankAppendOnly ==
    [][/\ (theta_bank' # theta_bank \/ x_bank' # x_bank) =>
             pc = "accumulate"
       /\ (pc = "accumulate" /\ pc' # pc) =>
             /\ Len(theta_bank') = Len(theta_bank) + 1
             /\ Len(x_bank') = Len(x_bank) + 1
             /\ SubSeq(theta_bank', 1, Len(theta_bank)) = theta_bank
             /\ SubSeq(x_bank', 1, Len(x_bank)) = x_bank
       /\ pc \in {"train", "loop", "epoch", "train_end"} =>
             UNCHANGED <<theta_bank, x_bank>>]_vars

\* The second round has appended its entry behind the first round's, which
\* was trained on for an epoch in between.
C25_Witness ==
    /\ pc = "train"
    /\ round_ = 1
    /\ Len(theta_bank) = 2 /\ Len(x_bank) = 2
    /\ Len(theta_bank[1]) >= 2
    /\ summary.epochs[1] >= 1

\* C26: in the APT loss a value that is not finite in the atomic
\* log-density, the prior log-density, the normalized proposal-posterior
\* log-probability or, with the combined loss, the non-atomic log-density
\* or the combined result makes the call raise; no value is returned.
C26_NonFiniteIsFatal ==
    (family = "snpe_c" /\ loss_pc = "done") =>
       ((\/ ~AllFinite(log_probs.posterior)
         \/ ~AllFinite(log_probs.prior)
         \/ ~AllFinite(log_probs.proposal)
         \/ ~AllFinite(log_probs.non_atomic)
         \/ ~AllFinite(loss_result.value))
        => loss_result.status = "raise")

\* The atomic value of row i from the two atomic tensors:
\* unnormalized[i, 0] - logsumexp(unnormalized[i]).
AtomicValue(i) ==
    LET K == atoms_used
        unnormalized == [a \in 0..(K - 1) |->
                            Sub(log_probs.posterior[i * K + a],
                                log_probs.prior[i * K + a])]
    IN Sub(unnormalized[0], LogSumExp(unnormalized))

\* C27: without the combined loss the APT loss returns the atomic value of
\* every row and the non-atomic log-density is not evaluated; with it the
\* value of a row is its atomic value plus mask times its non-atomic
\* log-density, and a row of mask 0 keeps its atomic value.
C27_CombinedLossAugments ==
    (family = "snpe_c" /\ loss_pc = "done" /\ loss_result.status = "return")
    => LET rows == DOMAIN theta_batch
       IN IF ~use_combined_loss
          THEN /\ loss_result.value = [i \in rows |-> AtomicValue(i)]
               /\ log_probs.non_atomic = <<>>
          ELSE /\ DOMAIN loss_result.value = rows
               /\ \A i \in rows :
                     /\ loss_result.value[i] =
                           Add(AtomicValue(i),
                               Times(masks[i], log_probs.non_atomic[i]))
                     /\ masks[i] = 0 =>
                           loss_result.value[i] = AtomicValue(i)

\* A loss evaluation of the epoch loop raised.
LossRaisedInTraining == pc = "error" /\ loss_calls # {}

\* The data loaders refused the batch size 0 of an empty bank.
EmptyBankRefused == pc = "error" /\ loss_calls = {} /\ num_examples = 0

Indices(slice) == {slice[i] : i \in DOMAIN slice}

\* The two slices hold no index twice, share none and together are 0..N-1.
SplitIsPartition ==
    /\ Indices(train_indices) \cap Indices(val_indices) = {}
    /\ Indices(train_indices) \cup Indices(val_indices)
          = 0..(num_examples - 1)
    /\ Cardinality(Indices(train_indices)) = Len(train_indices)
    /\ Cardinality(Indices(val_indices)) = Len(val_indices)
    /\ Len(train_indices) + Len(val_indices) = num_examples

\* The training slice has floor((1-f)*N) indices, f being the fraction
\* itself: N - 1 for a minute fraction, since N - 1 <= (1-f)*N < N.
TrainingIsFloor ==
    LET f == cfg.validation_fraction
        N == num_examples
    IN IF "exp" \in DOMAIN f
       THEN Len(train_indices) = N - 1
       ELSE \E q \in 0..N :
               /\ q * f.den <= (f.den - f.num) * N
               /\ (f.den - f.num) * N < (q + 1) * f.den
               /\ Len(train_indices) = q

\* C29, as stated: once _train has split a bank of N >= 1 rows with a
\* validation fraction f in (0,1), the training and the validation indices
\* are disjoint and together are exactly 0..N-1, the training indices number
\* floor((1-f)*N) and there is at least one validation index.
C29_SplitPartitionsTheBank ==
    (pc = "split" /\ num_examples >= 1) =>
        /\ SplitIsPartition
        /\ TrainingIsFloor
        /\ Len(val_indices) >= 1

\* C29, amended: the split is always a partition of 0..N-1; when 1 - f is
\* below 1 in double precision (f above 2^-54) there is at least one
\* validation index, and the training indices number int((1-f)*N), which is
\* floor((1-f)*N) for a fraction that is exact in binary.
C29_SplitPartitionsUnlessAbsorbed ==
    (pc = "split" /\ num_examples >= 1) =>
        /\ SplitIsPartition
        /\ OneMinus(cfg.validation_fraction).num
              < OneMinus(cfg.validation_fraction).den =>
                /\ TrainingIsFloor
                /\ Len(val_indices) >= 1
                /\ num_validation_examples = Len(val_indices)

\* A bank of several rows has been split into several training and several
\* validation indices, not in their natural order.
C29_Witness ==
    /\ pc = "split"
    /\ num_examples = MaxSplit - 1
    /\ Len(theta) = MaxSplit
    /\ Len(train_indices) >= 1
    /\ Len(val_indices) >= 2
    /\ permuted_indices # [i \in 1..num_examples |-> i - 1]

\* C30: while a TRAIN phase is in its epoch loop, the network whose
\* parameters the optimizer holds is self._posterior, the network the loss
\* is evaluated on, gradients are clipped on and the driver returns.
C30_OptimizerStepsCurrentPosterior ==
    pc \in {"loop", "epoch", "train_end"} => optimizer = posterior

\* C31: the two transform tables always have the same names, and a call of
\* get_transform with a name that a transform is registered under, as it was
\* registered, finds it: no KeyError, and what is constructed is the class
\* registered under that name.
C31_RegisteredNamesLookUp ==
    /\ DOMAIN TRANSFORMS = DOMAIN TRANSFORMS_INITS
    /\ (flow_call.op = "get_transform"
          /\ flow_call.args.name \in DOMAIN TRANSFORMS) =>
            /\ ~(flow_result.status = "raise"
                   /\ flow_result.error = "KeyError")
            /\ flow_result.status = "return" =>
                  flow_result.value.cls = TRANSFORMS[flow_call.args.name]

====
